---- MODULE Spec2Model ----
(***************************************************************************)
(* obmd: the per-node console Coordinator (internal/driver/coordinator),   *)
(* the Node/State registry and the Daemon facade, as a state machine.      *)
(*                                                                         *)
(* Goroutines are modelled as threads with a program counter.  A send on   *)
(* an unbuffered Go channel is a rendezvous: the sender waits at a         *)
(* "_send" position and the receiving select arm moves both parties.       *)
(* The specifications share the Coordinator actions:                       *)
(*   Spec             callers invoke one Server's methods directly and     *)
(*                    concurrently (any interleaving of the five events);  *)
(*   DaemonSpec       callers go through the Daemon, which holds its       *)
(*                    mutex around every method;                           *)
(*   ConsoleSpec      the part of DaemonSpec that concerns the console of  *)
(*                    a registered node, with fair scheduling;             *)
(*   RunInDaemonSpec  the earlier Daemon that runs its methods as closures *)
(*                    in one goroutine, over the State that re-registers   *)
(*                    inside State.SetNode;                                *)
(*   RegisterSpec     the admin methods of the Daemon alone, with more     *)
(*                    than one valid obm_info;                             *)
(*   StreamSpec       one Server with dials, closures and Close, with the  *)
(*                    fairness of its select.                              *)
(***************************************************************************)
EXTENDS Integers, FiniteSets, Sequences, TLC

\* ---------------------------------------------------------------- bounds
MaxProcs == 2        \* successful Dial calls (console subprocesses) per run
MaxServers == 2      \* Coordinators created per run (registrations)
MaxTokens == 2       \* tokens minted per run
MaxVersion == 2      \* highest node version reached
NumThreads == 2      \* concurrent callers

Threads == 1..NumThreads
Servers == 1..MaxServers
Procs == 1..MaxProcs
Labels == {"n1"}

NoThread == 0        \* "no request in hand"
NoProc == 0          \* proc == nil; also the placeholder consoleConn of Serve
NoServer == 0        \* label not in State.nodes
\* The sentinel token is drawn from crypto/rand at startup and never leaves
\* the process, and so is every minted token until GetNodeToken returns it:
\* a client presents values of Tokens, which may be a token minted earlier,
\* the current one, or a guess at one not minted yet, but never the sentinel.
noToken == 0
Tokens == 1..MaxTokens
NoRow == [version |-> -1, info |-> "none"]   \* no row for the label
Infos == {"a", "bad"}   \* obm_info bodies; the driver rejects "bad"
MockAddrs == {"a", "b"}  \* the "addr" fields of the bodies the mock accepts

VARIABLES
  \* Coordinator (coordinator.Server and the locals of Serve)
  srvpc,       \* position of each Serve goroutine
  proc,        \* Serve's local `proc` (NoProc = nil)
  conn,        \* Serve's local `conn`: id of the current consoleConn
  req,         \* thread whose consoleReq / closure Serve has in hand
  ctxDone,     \* ctx.Done() is closed (CANCEL was delivered)
  \* console subprocesses and their consoleConn (one conn per dialed proc)
  nextProc,    \* next fresh proc id
  procState,   \* "none" | "running" | "shutdown"
  procOwner,   \* Server whose Dial created the proc
  shutdowns,   \* number of Shutdown calls made on the proc
  dropbuf,     \* items in consoleConn.drop (capacity 1)
  dropped,     \* consoleConn.dropped
  delivered,   \* the conn was handed to a DialConsole caller
  cpc,         \* position of the HTTP handler streaming each conn
  \* callers
  tpc,         \* position of each caller thread
  tsrv,        \* Server the thread is calling into
  tconn,       \* consoleConn the thread is closing / streaming
  top,         \* operation the thread is executing
  tcmd,        \* control command carried by the thread's closure
  tlabel,      \* label argument of the Daemon method
  targ,        \* version or token argument of the Daemon method
  tinfo,       \* info argument of the Daemon method
  ttok,        \* token generated by Node.NewToken
  tres,        \* result of the thread's last completed call
  \* Daemon, State and Node
  mutex,       \* holder of Daemon's sync.Mutex
  nodes,       \* State.nodes: label -> the Server behind node.OBM
  Version,     \* Node.Version
  CurrentToken,\* Node.CurrentToken
  ConnInfo,    \* Node.ConnInfo
  rows,        \* the SQL table nodes(label, obm_info, version)
  nextServer,  \* next fresh Server id
  nextToken,   \* next fresh value of crypto/rand
  revoked,     \* tokens numbered up to this were minted before the label's
               \* last completed invalidation, re-registration or deletion
  highVersion, \* highest version a node of the label has had so far
  boots,       \* processes started on the table after the first one
  \* the mock driver
  NumWrites,   \* mockInfo.NumWrites of the OBM behind each Server
  LastPowerActions, \* mock.LastPowerActions: addr -> last action
  lines,       \* the line numbers read from each console stream so far
  \* the dummy driver
  dconn,       \* dummyOBM.conn (NoProc = nil)
  dclosed,     \* the connections of the dummy that were closed
  dlog,        \* the last line the dummy driver logged
  status,      \* the status string GetPowerStatus returned to each caller
  \* the ipmi driver and the subprocesses
  issued,      \* ipmitool commands run by each caller's closure, with outcome
  faulty,      \* subprocesses whose Shutdown returns an error
  \* the functions that are checked by themselves
  callIn,      \* the arguments of the last call
  callOut      \* its result

drvVars == <<dlog, status, issued, faulty>>
pureVars == <<callIn, callOut>>
auxVars == <<boots, LastPowerActions, lines, dconn, dclosed, drvVars, pureVars>>
coordVars == <<srvpc, proc, conn, req, ctxDone>>
procVars == <<nextProc, procState, procOwner, shutdowns, NumWrites, dropbuf, dropped, delivered,
             cpc>>
threadVars == <<tpc, tsrv, tconn, top, tcmd, tlabel, targ, tinfo, ttok, tres>>
daemonVars == <<mutex, nodes, Version, CurrentToken, ConnInfo, rows, nextServer,
                nextToken, revoked, highVersion, auxVars>>
vars == <<coordVars, procVars, threadVars, daemonVars>>

\* the methods of the Daemon that take a token
TokenOps == {"DialNodeConsole", "PowerOffNode", "PowerCycleNode", "SetNodeBootDev",
             "GetNodePowerStatus"}

\* Where a caller goes when the Server method it called returns: a direct
\* caller has its result ("done"), a Daemon method continues under the mutex.
Ret(t) ==
  IF top[t] = "direct" THEN "done"
  ELSE IF top[t] \in TokenOps THEN "ret"
  ELSE "back"

NoResult == [err |-> "none", val |-> 0]

\* no function called yet
NoCall == [op |-> "none", x |-> <<>>, y |-> <<>>, z |-> <<>>]
NoOut == [err |-> "none", val |-> <<>>, work |-> <<>>]

\* --------------------------------------------------------- Coordinator
\* The goroutine of Serve sits at its select ("select") or inside the arm it
\* chose.  An arm is cut into steps only where another goroutine can tell
\* the difference: after a receive that releases the sender, and around the
\* driver calls whose caller is waiting.

\* a Serve whose loop would take the next event while a closure of
\* RunInServer is still running, as if the wrapper were started with `go`
SelectingOrRunning(s) == srvpc[s] \in {"select", "fn"}

\* `for { select {`: the goroutine of Serve is ready for its next event
Selecting(s) == srvpc[s] = "select"

\* a driver whose Shutdown leaves the subprocess running
ShutdownNoop(p) == UNCHANGED <<procState, shutdowns, NumWrites>>

\* proc.Shutdown(): the driver ends the console subprocess.  Its error is
\* only logged by stopProcess, so it leaves no trace in the state.  The
\* mock's Shutdown closes the pipe and waits for the writer goroutine: the
\* Fprintf that was pending fails, and the loop's info.NumWrites++ runs
\* once more before the goroutine signals done.
Shutdown(p) ==
  /\ procState' = [procState EXCEPT ![p] = "shutdown"]
  /\ shutdowns' = [shutdowns EXCEPT ![p] = @ + 1]
  /\ NumWrites' = [NumWrites EXCEPT ![procOwner[p]] =
                     IF procState[p] = "running" THEN @ + 1 ELSE @]

\* a stopProcess that forgets `proc = nil`
stopProcessKeep(s) ==
  IF proc[s] = NoProc
  THEN UNCHANGED <<proc, procState, shutdowns, NumWrites>>
  ELSE /\ Shutdown(proc[s])
       /\ UNCHANGED proc

\* a stopProcess that does nothing
stopProcessSkip(s) == UNCHANGED <<proc, procState, shutdowns, NumWrites>>

\* proc.Shutdown() of the drivers returns an error for some subprocesses
ShutdownErr(p) == IF p \in faulty THEN "exit" ELSE "ok"

\* a stopProcess that keeps the proc whose Shutdown failed
stopProcessRetry(s) ==
  IF proc[s] = NoProc
  THEN UNCHANGED <<proc, procState, shutdowns, NumWrites>>
  ELSE /\ Shutdown(proc[s])
       /\ proc' = [proc EXCEPT ![s] = IF ShutdownErr(proc[s]) = "ok" THEN NoProc ELSE @]

\* the closure stopProcess of Serve; the error of Shutdown is logged only
stopProcess(s) ==
  IF proc[s] = NoProc
  THEN UNCHANGED <<proc, procState, shutdowns, NumWrites>>
  ELSE /\ Shutdown(proc[s])
       /\ proc' = [proc EXCEPT ![s] = NoProc]

\* a ctx.Done case that returns without stopProcess()
ServeCtxDoneNoStop(s) ==
  /\ Selecting(s)
  /\ ctxDone[s]
  /\ srvpc' = [srvpc EXCEPT ![s] = "exited"]
  /\ conn' = [conn EXCEPT ![s] = NoProc]
  /\ UNCHANGED <<proc, req, ctxDone, procVars, threadVars, daemonVars>>

\* case <-ctx.Done(): stopProcess(); return
ServeCtxDone(s) ==
  /\ Selecting(s)
  /\ ctxDone[s]
  /\ stopProcess(s)
  /\ srvpc' = [srvpc EXCEPT ![s] = "exited"]
  /\ conn' = [conn EXCEPT ![s] = NoProc]     \* the locals of Serve are gone
  /\ UNCHANGED <<req, ctxDone, nextProc, procOwner, dropbuf, dropped,
                 delivered, cpc, threadVars, daemonVars>>

\* case <-conn.drop: stopProcess().  Only the drop channel of the current
\* conn is watched; the placeholder conn's channel never holds anything.
ServeConnDrop(s) ==
  /\ Selecting(s)
  /\ conn[s] # NoProc
  /\ dropbuf[conn[s]] > 0
  /\ dropbuf' = [dropbuf EXCEPT ![conn[s]] = @ - 1]
  /\ stopProcess(s)
  /\ UNCHANGED <<srvpc, conn, req, ctxDone, nextProc, procOwner, dropped,
                 delivered, cpc, threadVars, daemonVars>>

\* case <-s.dropConsole: the rendezvous lets Server.DropConsole return nil
ServeDropConsole(s, t) ==
  /\ Selecting(s)
  /\ tpc[t] = "DropConsole_send" /\ tsrv[t] = s
  /\ srvpc' = [srvpc EXCEPT ![s] = "stop"]
  /\ tpc' = [tpc EXCEPT ![t] = Ret(t)]
  /\ tres' = [tres EXCEPT ![t] = [err |-> "ok", val |-> 0]]
  /\ UNCHANGED <<proc, conn, req, ctxDone, procVars, tsrv, tconn, top, tcmd, tlabel, targ, tinfo, ttok, daemonVars>>

\* ... stopProcess() of the dropConsole case
ServeStop(s) ==
  /\ srvpc[s] = "stop"
  /\ stopProcess(s)
  /\ srvpc' = [srvpc EXCEPT ![s] = "select"]
  /\ UNCHANGED <<conn, req, ctxDone, nextProc, procOwner, dropbuf, dropped,
                 delivered, cpc, threadVars, daemonVars>>

\* case fn := <-s.funcs
ServeFuncs(s, t) ==
  /\ Selecting(s)
  /\ tpc[t] = "RunInServer_send" /\ tsrv[t] = s
  /\ srvpc' = [srvpc EXCEPT ![s] = "fn"]
  /\ req' = [req EXCEPT ![s] = t]
  /\ tpc' = [tpc EXCEPT ![t] = "RunInServer_recv"]
  /\ UNCHANGED <<proc, conn, ctxDone, procVars, tsrv, tconn, top, tcmd, tlabel, targ, tinfo, ttok, tres, daemonVars>>

\* a funcs case whose wrapper never sends on `done`
ServeFnNoDone(s) ==
  /\ srvpc[s] = "fn"
  /\ tpc[req[s]] = "RunInServer_recv"
  /\ srvpc' = [srvpc EXCEPT ![s] = "select"]
  /\ req' = [req EXCEPT ![s] = NoThread]
  /\ UNCHANGED <<proc, conn, ctxDone, procVars, threadVars, daemonVars>>

\* a funcs case that tears the console down after the closure
ServeFnStop(s) ==
  /\ srvpc[s] = "fn"
  /\ tpc[req[s]] = "RunInServer_recv"
  /\ stopProcess(s)
  /\ srvpc' = [srvpc EXCEPT ![s] = "select"]
  /\ req' = [req EXCEPT ![s] = NoThread]
  /\ tpc' = [tpc EXCEPT ![req[s]] = Ret(req[s])]
  /\ tres' = [tres EXCEPT ![req[s]] = [err |-> "ok", val |-> 0]]
  /\ UNCHANGED <<conn, ctxDone, nextProc, procOwner, dropbuf, dropped,
                 delivered, cpc, tsrv, tconn, top, tcmd, tlabel, targ, tinfo,
                 ttok, daemonVars>>

\* fn(): the caller's closure runs in the Serve goroutine, and the
\* `done <- struct{}{}` of RunInServer's wrapper is received by the caller
ServeFn(s) ==
  /\ srvpc[s] = "fn"
  /\ tpc[req[s]] = "RunInServer_recv"
  /\ srvpc' = [srvpc EXCEPT ![s] = "select"]
  /\ req' = [req EXCEPT ![s] = NoThread]
  /\ tpc' = [tpc EXCEPT ![req[s]] = Ret(req[s])]
  /\ tres' = [tres EXCEPT ![req[s]] = [err |-> "ok", val |-> 0]]
  /\ UNCHANGED <<proc, conn, ctxDone, procVars, tsrv, tconn, top, tcmd, tlabel, targ, tinfo, ttok, daemonVars>>

\* case req := <-s.dialConsole: stopProcess()
ServeDialConsole(s, t) ==
  /\ Selecting(s)
  /\ tpc[t] = "DialConsole_send" /\ tsrv[t] = s
  /\ stopProcess(s)
  /\ srvpc' = [srvpc EXCEPT ![s] = "dial"]
  /\ req' = [req EXCEPT ![s] = t]
  /\ tpc' = [tpc EXCEPT ![t] = "DialConsole_recv"]
  /\ UNCHANGED <<conn, ctxDone, nextProc, procOwner, dropbuf, dropped, delivered,
                 cpc, tsrv, tconn, top, tcmd, tlabel, targ, tinfo, ttok, tres, daemonVars>>

\* proc, err = s.obm.Dial() succeeded: a new subprocess; lines 105-111 wrap
\* its reader in a new consoleConn that becomes `conn`; req.conn <- conn
ServeDialOk(s) ==
  /\ srvpc[s] = "dial"
  /\ tpc[req[s]] = "DialConsole_recv"
  /\ nextProc <= MaxProcs
  /\ proc' = [proc EXCEPT ![s] = nextProc]
  /\ conn' = [conn EXCEPT ![s] = nextProc]
  /\ procState' = [procState EXCEPT ![nextProc] = "running"]
  /\ procOwner' = [procOwner EXCEPT ![nextProc] = s]
  /\ nextProc' = nextProc + 1
  /\ delivered' = [delivered EXCEPT ![nextProc] = TRUE]
  /\ srvpc' = [srvpc EXCEPT ![s] = "select"]
  /\ req' = [req EXCEPT ![s] = NoThread]
  /\ tpc' = [tpc EXCEPT ![req[s]] = Ret(req[s])]
  /\ tres' = [tres EXCEPT ![req[s]] = [err |-> "ok", val |-> nextProc]]
  /\ UNCHANGED <<ctxDone, shutdowns, NumWrites, dropbuf, dropped, cpc, tsrv, tconn, top, tcmd, tlabel, targ, tinfo, ttok, daemonVars>>

\* a failed Dial after which Serve goes on without a reply
ServeDialFailSilent(s) ==
  /\ srvpc[s] = "dial"
  /\ tpc[req[s]] = "DialConsole_recv"
  /\ proc' = [proc EXCEPT ![s] = NoProc]
  /\ srvpc' = [srvpc EXCEPT ![s] = "select"]
  /\ req' = [req EXCEPT ![s] = NoThread]
  /\ UNCHANGED <<conn, ctxDone, procVars, threadVars, daemonVars>>

\* proc, err = s.obm.Dial() failed (the drivers return nil, err);
\* req.err <- err; continue
ServeDialFail(s) ==
  /\ srvpc[s] = "dial"
  /\ tpc[req[s]] = "DialConsole_recv"
  /\ proc' = [proc EXCEPT ![s] = NoProc]
  /\ srvpc' = [srvpc EXCEPT ![s] = "select"]
  /\ req' = [req EXCEPT ![s] = NoThread]
  /\ tpc' = [tpc EXCEPT ![req[s]] = Ret(req[s])]
  /\ tres' = [tres EXCEPT ![req[s]] = [err |-> "dial", val |-> 0]]
  /\ UNCHANGED <<conn, ctxDone, procVars, tsrv, tconn, top, tcmd, tlabel, targ, tinfo, ttok, daemonVars>>

\* one step of the goroutine running s.Serve(ctx)
Serve(s) ==
  \/ ServeCtxDone(s)
  \/ ServeConnDrop(s)
  \/ \E t \in Threads : ServeDropConsole(s, t)
  \/ ServeStop(s)
  \/ \E t \in Threads : ServeFuncs(s, t)
  \/ ServeFn(s)
  \/ \E t \in Threads : ServeDialConsole(s, t)
  \/ ServeDialOk(s)
  \/ ServeDialFail(s)

\* ------------------------------------------------ callers of the Server
\* a DropConsole that returns without telling the Server
DropConsoleNoSend(t, s) ==
  /\ tpc' = [tpc EXCEPT ![t] = "back"]
  /\ tsrv' = [tsrv EXCEPT ![t] = s]

\* Server.DropConsole: s.dropConsole <- struct{}{}
DropConsole(t, s) ==
  /\ tpc' = [tpc EXCEPT ![t] = "DropConsole_send"]
  /\ tsrv' = [tsrv EXCEPT ![t] = s]

\* Server.DialConsole: s.dialConsole <- req, then the select on req.err/req.conn
DialConsole(t, s) ==
  /\ tpc' = [tpc EXCEPT ![t] = "DialConsole_send"]
  /\ tsrv' = [tsrv EXCEPT ![t] = s]

\* Server.RunInServer: s.funcs <- wrapper, then <-done
RunInServer(t, s, cmd) ==
  /\ tpc' = [tpc EXCEPT ![t] = "RunInServer_send"]
  /\ tsrv' = [tsrv EXCEPT ![t] = s]
  /\ tcmd' = [tcmd EXCEPT ![t] = cmd]

\* consoleConn.Close, `if !c.dropped`: where the caller goes next
closeRead(c) == IF dropped[c] THEN "return" ELSE "Close_send"

\* a Close that sends on one channel shared by all the streams of the
\* Server, as if `drop` were made once, before the loop of Serve
closeSendShared(c) ==
  /\ conn[procOwner[c]] # NoProc
  /\ dropbuf[conn[procOwner[c]]] < 1
  /\ dropbuf' = [dropbuf EXCEPT ![conn[procOwner[c]]] = @ + 1]
  /\ dropped' = [dropped EXCEPT ![c] = TRUE]

\* a Close that sets the flag and sends nothing
closeSendFlagOnly(c) ==
  /\ dropped' = [dropped EXCEPT ![c] = TRUE]
  /\ UNCHANGED dropbuf

\* consoleConn.Close, `c.dropped = true; c.drop <- struct{}{}` on the channel
\* of capacity 1.  The flag is written and the send follows at once unless
\* the buffer is full, and the buffer is full only after another Close has
\* written the flag: one step.
closeSend(c) ==
  /\ dropbuf[c] < 1
  /\ dropbuf' = [dropbuf EXCEPT ![c] = @ + 1]
  /\ dropped' = [dropped EXCEPT ![c] = TRUE]

\* Close called by a caller thread
CloseRead(t) ==
  /\ tpc[t] = "Close_read"
  /\ tpc' = [tpc EXCEPT ![t] =
       IF closeRead(tconn[t]) = "return" THEN "idle" ELSE closeRead(tconn[t])]
  /\ tconn' = [tconn EXCEPT ![t] = IF closeRead(tconn[t]) = "return" THEN NoProc ELSE @]
  /\ UNCHANGED <<coordVars, procVars, tsrv, top, tcmd, tlabel, targ, tinfo, ttok, tres,
                 daemonVars>>

CloseSend(t) ==
  /\ tpc[t] = "Close_send"
  /\ closeSend(tconn[t])
  /\ tpc' = [tpc EXCEPT ![t] = "idle"]
  /\ tconn' = [tconn EXCEPT ![t] = NoProc]
  /\ UNCHANGED <<coordVars, nextProc, procState, procOwner, shutdowns, NumWrites, delivered,
                 cpc, tsrv, top, tcmd, tlabel, targ, tinfo, ttok, tres, daemonVars>>

Close(t) == CloseRead(t) \/ CloseSend(t)

\* ------------------------------------------- Spec: one Server, direct calls
TheServer == 1

CallDropConsole(t) ==
  /\ tpc[t] = "idle"
  /\ DropConsole(t, TheServer)
  /\ top' = [top EXCEPT ![t] = "direct"]
  /\ UNCHANGED <<coordVars, procVars, tconn, tcmd, tlabel, targ, tinfo, ttok, tres, daemonVars>>

CallDialConsole(t) ==
  /\ tpc[t] = "idle"
  /\ DialConsole(t, TheServer)
  /\ top' = [top EXCEPT ![t] = "direct"]
  /\ UNCHANGED <<coordVars, procVars, tconn, tcmd, tlabel, targ, tinfo, ttok, tres, daemonVars>>

CallRunInServer(t) ==
  /\ tpc[t] = "idle"
  /\ RunInServer(t, TheServer, "fn")
  /\ top' = [top EXCEPT ![t] = "direct"]
  /\ UNCHANGED <<coordVars, procVars, tconn, tlabel, targ, tinfo, ttok, tres, daemonVars>>

\* any goroutine may call Close on a stream that DialConsole handed out
CallClose(t, c) ==
  /\ tpc[t] = "idle"
  /\ delivered[c]
  /\ tpc' = [tpc EXCEPT ![t] = "Close_read"]
  /\ tconn' = [tconn EXCEPT ![t] = c]
  /\ top' = [top EXCEPT ![t] = "direct"]
  /\ UNCHANGED <<coordVars, procVars, tsrv, tcmd, tlabel, targ, tinfo, ttok, tres, daemonVars>>

\* the caller has consumed the result of its call
Return(t) ==
  /\ tpc[t] = "done"
  /\ tpc' = [tpc EXCEPT ![t] = "idle"]
  /\ tsrv' = [tsrv EXCEPT ![t] = NoServer]
  /\ tcmd' = [tcmd EXCEPT ![t] = "none"]
  /\ tres' = [tres EXCEPT ![t] = NoResult]
  /\ top' = [top EXCEPT ![t] = "direct"]
  /\ tlabel' = [tlabel EXCEPT ![t] = "none"]
  /\ targ' = [targ EXCEPT ![t] = 0]
  /\ tinfo' = [tinfo EXCEPT ![t] = "none"]
  /\ ttok' = [ttok EXCEPT ![t] = noToken]
  /\ UNCHANGED <<coordVars, procVars, tconn, daemonVars>>

\* the CancelFunc of the context passed to Serve
Cancel(s) ==
  /\ srvpc[s] # "off"
  /\ ~ctxDone[s]
  /\ ctxDone' = [ctxDone EXCEPT ![s] = TRUE]
  /\ UNCHANGED <<srvpc, proc, conn, req, procVars, threadVars, daemonVars>>

Init ==
  /\ srvpc = [s \in Servers |-> IF s = TheServer THEN "select" ELSE "off"]
  /\ proc = [s \in Servers |-> NoProc]
  /\ conn = [s \in Servers |-> NoProc]
  /\ req = [s \in Servers |-> NoThread]
  /\ ctxDone = [s \in Servers |-> FALSE]
  /\ nextProc = 1
  /\ procState = [p \in Procs |-> "none"]
  /\ procOwner = [p \in Procs |-> NoServer]
  /\ shutdowns = [p \in Procs |-> 0]
  /\ dropbuf = [p \in Procs |-> 0]
  /\ dropped = [p \in Procs |-> FALSE]
  /\ delivered = [p \in Procs |-> FALSE]
  /\ cpc = [p \in Procs |-> "none"]
  /\ tpc = [t \in Threads |-> "idle"]
  /\ tsrv = [t \in Threads |-> NoServer]
  /\ tconn = [t \in Threads |-> NoProc]
  /\ top = [t \in Threads |-> "direct"]
  /\ tcmd = [t \in Threads |-> "none"]
  /\ tres = [t \in Threads |-> NoResult]
  /\ tlabel = [t \in Threads |-> "none"]
  /\ targ = [t \in Threads |-> 0]
  /\ tinfo = [t \in Threads |-> "none"]
  /\ ttok = [t \in Threads |-> noToken]
  /\ mutex = NoThread
  /\ nodes = [l \in Labels |-> NoServer]
  /\ Version = [l \in Labels |-> 0]
  /\ CurrentToken = [l \in Labels |-> noToken]
  /\ ConnInfo = [l \in Labels |-> "none"]
  /\ rows = [l \in Labels |-> NoRow]
  /\ nextServer = 1
  /\ nextToken = 1
  /\ revoked = [l \in Labels |-> 0]
  /\ highVersion = [l \in Labels |-> 0]
  /\ boots = 0
  /\ NumWrites = [s \in Servers |-> 0]
  /\ LastPowerActions = [a \in MockAddrs |-> "none"]
  /\ lines = [p \in Procs |-> <<>>]
  /\ dconn = NoProc
  /\ dclosed = {}
  /\ dlog = "none"
  /\ status = [t \in Threads |-> "none"]
  /\ issued = [t \in Threads |-> <<>>]
  /\ faulty = {}
  /\ callIn = NoCall
  /\ callOut = NoOut

Next ==
  \/ Serve(TheServer)
  \/ \E t \in Threads : CallDropConsole(t)
  \/ \E t \in Threads : CallDialConsole(t)
  \/ \E t \in Threads : CallRunInServer(t)
  \/ \E t \in Threads, c \in Procs : CallClose(t, c)
  \/ \E t \in Threads : Close(t)
  \/ \E t \in Threads : Return(t)
  \/ Cancel(TheServer)

Spec == Init /\ [][Next]_vars

\* ------------------------------------------------------------- DummySpec
\* One OBM of the dummy driver, called as the Server of Spec is.  Its
\* console is a TCP connection; nextProc numbers the connections.

\* net.Conn.Close: a second Close of a connection returns an error
ConnClose(c) == IF c \in dclosed THEN "closed" ELSE "ok"

\* dummyOBM.DropConsole: `return d.conn.Close()` when d.conn is not nil;
\* the `d.conn = nil` after the return is never executed
dummyDropConsole ==
  [err |-> IF dconn # NoProc THEN ConnClose(dconn) ELSE "ok",
   closed |-> IF dconn # NoProc THEN dclosed \cup {dconn} ELSE dclosed,
   conn |-> dconn]

\* a caller of dummyOBM.DropConsole
DummyDropConsole(t) ==
  /\ tpc[t] = "idle"
  /\ tpc' = [tpc EXCEPT ![t] = "done"]
  /\ tcmd' = [tcmd EXCEPT ![t] = "DropConsole"]
  /\ tres' = [tres EXCEPT ![t] = [err |-> dummyDropConsole.err, val |-> 0]]
  /\ dclosed' = dummyDropConsole.closed
  /\ dconn' = dummyDropConsole.conn
  /\ UNCHANGED <<coordVars, procVars, tsrv, tconn, top, tlabel, targ, tinfo,
                 ttok, mutex, nodes, Version, CurrentToken, ConnInfo, rows,
                 nextServer, nextToken, revoked, highVersion, boots, drvVars, pureVars,
                 LastPowerActions, lines>>

\* a caller of dummyOBM.DialConsole: net.Dial and Fprintln, then d.conn = conn
DummyDialConsole(t) ==
  /\ tpc[t] = "idle"
  /\ tpc' = [tpc EXCEPT ![t] = "done"]
  /\ tcmd' = [tcmd EXCEPT ![t] = "DialConsole"]
  /\ \E dialOk \in BOOLEAN :
       IF dialOk /\ nextProc <= MaxProcs
       THEN /\ dconn' = nextProc
            /\ nextProc' = nextProc + 1
            /\ tres' = [tres EXCEPT ![t] = [err |-> "ok", val |-> nextProc]]
       ELSE /\ tres' = [tres EXCEPT ![t] = [err |-> "dial", val |-> 0]]
            /\ UNCHANGED <<dconn, nextProc>>
  /\ UNCHANGED <<coordVars, procState, procOwner, shutdowns, NumWrites, dropbuf,
                 dropped, delivered, cpc, tsrv, tconn, top, tlabel, targ, tinfo,
                 ttok, mutex, nodes, Version, CurrentToken, ConnInfo, rows,
                 nextServer, nextToken, revoked, highVersion, boots, drvVars, pureVars,
                 LastPowerActions, lines, dclosed>>

\* the reader of a console closes the connection DialConsole returned
DummyReaderClose(c) ==
  /\ c < nextProc
  /\ c \notin dclosed
  /\ dclosed' = dclosed \cup {c}
  /\ UNCHANGED <<coordVars, procVars, threadVars, mutex, nodes, Version,
                 CurrentToken, ConnInfo, rows, nextServer, nextToken, revoked,
                 highVersion, boots, drvVars, pureVars, LastPowerActions, lines, dconn>>

\* dummyOBM.Serve: <-ctx.Done(); d.DropConsole()
DummyServe(s) ==
  /\ Selecting(s)
  /\ ctxDone[s]
  /\ srvpc' = [srvpc EXCEPT ![s] = "exited"]
  /\ dclosed' = dummyDropConsole.closed
  /\ dconn' = dummyDropConsole.conn
  /\ UNCHANGED <<proc, conn, req, ctxDone, procVars, threadVars, mutex, nodes,
                 Version, CurrentToken, ConnInfo, rows, nextServer, nextToken,
                 revoked, highVersion, boots, drvVars, pureVars, LastPowerActions, lines>>

\* a caller of dummyOBM.PowerOff, PowerCycle or SetBootdev: log.Printf of the
\* action, return nil.  dlog keeps the line of the last power action.
DummyControl(t, cmd) ==
  /\ tpc[t] = "idle"
  /\ tpc' = [tpc EXCEPT ![t] = "done"]
  /\ tcmd' = [tcmd EXCEPT ![t] = cmd]
  /\ tres' = [tres EXCEPT ![t] = [err |-> "ok", val |-> 0]]
  /\ dlog' = IF cmd = "SetBootdev" THEN dlog ELSE cmd
  /\ UNCHANGED <<coordVars, procVars, tsrv, tconn, top, tlabel, targ, tinfo,
                 ttok, mutex, nodes, Version, CurrentToken, ConnInfo, rows,
                 nextServer, nextToken, revoked, highVersion, boots, pureVars,
                 LastPowerActions, lines, dconn, dclosed, status, issued,
                 faulty>>

\* a caller of dummyOBM.GetPowerStatus: return "Dummy Status", nil
DummyGetPowerStatus(t) ==
  /\ tpc[t] = "idle"
  /\ tpc' = [tpc EXCEPT ![t] = "done"]
  /\ tcmd' = [tcmd EXCEPT ![t] = "GetPowerStatus"]
  /\ tres' = [tres EXCEPT ![t] = [err |-> "ok", val |-> 0]]
  /\ status' = [status EXCEPT ![t] = "Dummy Status"]
  /\ UNCHANGED <<coordVars, procVars, tsrv, tconn, top, tlabel, targ, tinfo,
                 ttok, mutex, nodes, Version, CurrentToken, ConnInfo, rows,
                 nextServer, nextToken, revoked, highVersion, boots, pureVars,
                 LastPowerActions, lines, dconn, dclosed, dlog, issued,
                 faulty>>

DummyNext ==
  \/ DummyServe(TheServer)
  \/ \E t \in Threads, cmd \in {"PowerOff", "PowerCycle", "SetBootdev"} :
       DummyControl(t, cmd)
  \/ \E t \in Threads : DummyGetPowerStatus(t)
  \/ Cancel(TheServer)
  \/ \E t \in Threads : DummyDropConsole(t)
  \/ \E t \in Threads : DummyDialConsole(t)
  \/ \E c \in Procs : DummyReaderClose(c)
  \/ \E t \in Threads : Return(t)

DummySpec == Init /\ [][DummyNext]_vars

\* -------------------------------------------------------------- IpmiSpec
\* The Server of Spec behind the ipmi driver: PowerCycle hands Serve a
\* closure that runs ipmitool once or twice.  An ipmitool run exits with
\* status 0 (ok) or not.

\* `if force { op = "reset" } else { op = "cycle" }`
PowerCycleOp(force) == IF force THEN "reset" ELSE "cycle"

\* what `err` of the closure is after an ipmitool run
RunErr(ok) == IF ok THEN "ok" ELSE "exit"

\* server.PowerCycle: s.RunInServer(func() { ... })
IpmiPowerCycle(t, force) ==
  /\ tpc[t] = "idle"
  /\ RunInServer(t, TheServer, PowerCycleOp(force))
  /\ top' = [top EXCEPT ![t] = "direct"]
  /\ tinfo' = [tinfo EXCEPT ![t] = IF force THEN "force" ELSE "soft"]
  /\ issued' = [issued EXCEPT ![t] = <<>>]
  /\ UNCHANGED <<coordVars, procVars, tconn, tlabel, targ, ttok, tres, mutex,
                 nodes, Version, CurrentToken, ConnInfo, rows, nextServer,
                 nextToken, revoked, highVersion, boots, pureVars, LastPowerActions,
                 lines, dconn, dclosed, dlog, status, faulty>>

\* the end of fn() and the `done <- struct{}{}` of RunInServer's wrapper
FnDone(s, err) ==
  /\ srvpc' = [srvpc EXCEPT ![s] = "select"]
  /\ req' = [req EXCEPT ![s] = NoThread]
  /\ tpc' = [tpc EXCEPT ![req[s]] = Ret(req[s])]
  /\ tres' = [tres EXCEPT ![req[s]] = [err |-> err, val |-> 0]]

\* a PowerCycle closure that gives up after its first command
IpmiFnNoRetry(s) ==
  /\ srvpc[s] = "fn"
  /\ tpc[req[s]] = "RunInServer_recv"
  /\ \E ok \in BOOLEAN :
       /\ issued' = [issued EXCEPT ![req[s]] =
            Append(@, [cmd |-> "chassis power " \o tcmd[req[s]], ok |-> ok])]
       /\ FnDone(s, RunErr(ok))
  /\ UNCHANGED <<proc, conn, ctxDone, procVars, tsrv, tconn, top, tcmd, tlabel,
                 targ, tinfo, ttok, mutex, nodes, Version, CurrentToken,
                 ConnInfo, rows, nextServer, nextToken, revoked, highVersion,
                 boots, pureVars, LastPowerActions, lines, dconn, dclosed, dlog, status,
                 faulty>>

\* fn() of PowerCycle: err = ipmitool("chassis", "power", op).Run();
\* if err == nil { return }
IpmiFn(s) ==
  /\ srvpc[s] = "fn"
  /\ tpc[req[s]] = "RunInServer_recv"
  /\ \E ok \in BOOLEAN :
       /\ issued' = [issued EXCEPT ![req[s]] =
            Append(@, [cmd |-> "chassis power " \o tcmd[req[s]], ok |-> ok])]
       /\ IF ok
          THEN FnDone(s, "ok")
          ELSE /\ srvpc' = [srvpc EXCEPT ![s] = "fn_on"]
               /\ UNCHANGED <<req, tpc, tres>>
  /\ UNCHANGED <<proc, conn, ctxDone, procVars, tsrv, tconn, top, tcmd, tlabel,
                 targ, tinfo, ttok, mutex, nodes, Version, CurrentToken,
                 ConnInfo, rows, nextServer, nextToken, revoked, highVersion,
                 boots, pureVars, LastPowerActions, lines, dconn, dclosed, dlog, status,
                 faulty>>

\* ... err = ipmitool("chassis", "power", "on").Run(), the end of fn()
IpmiFnOn(s) ==
  /\ srvpc[s] = "fn_on"
  /\ \E ok \in BOOLEAN :
       /\ issued' = [issued EXCEPT ![req[s]] =
            Append(@, [cmd |-> "chassis power on", ok |-> ok])]
       /\ FnDone(s, RunErr(ok))
  /\ UNCHANGED <<proc, conn, ctxDone, procVars, tsrv, tconn, top, tcmd, tlabel,
                 targ, tinfo, ttok, mutex, nodes, Version, CurrentToken,
                 ConnInfo, rows, nextServer, nextToken, revoked, highVersion,
                 boots, pureVars, LastPowerActions, lines, dconn, dclosed, dlog, status,
                 faulty>>

IpmiNext ==
  \/ ServeCtxDone(TheServer)
  \/ ServeConnDrop(TheServer)
  \/ \E t \in Threads : ServeDropConsole(TheServer, t)
  \/ ServeStop(TheServer)
  \/ \E t \in Threads : ServeFuncs(TheServer, t)
  \/ IpmiFn(TheServer)
  \/ IpmiFnOn(TheServer)
  \/ \E t \in Threads : ServeDialConsole(TheServer, t)
  \/ ServeDialOk(TheServer)
  \/ ServeDialFail(TheServer)
  \/ \E t \in Threads : CallDropConsole(t)
  \/ \E t \in Threads : CallDialConsole(t)
  \/ \E t \in Threads, force \in BOOLEAN : IpmiPowerCycle(t, force)
  \/ \E t \in Threads, c \in Procs : CallClose(t, c)
  \/ \E t \in Threads : Close(t)
  \/ \E t \in Threads : Return(t)
  \/ Cancel(TheServer)

IpmiSpec == Init /\ [][IpmiNext]_vars

\* ------------------------------------------------------------- TokenSpec
\* Token.MarshalText and Token.UnmarshalText by themselves, one call in each
\* behaviour.  A text is the sequence of its character codes, a Token the
\* sequence of its bytes.
TokenLen == 2        \* bytes of a Token (128 / 8 in token.go)

\* the byte values and the character codes tried: / 0 9 : F G f g
ByteValues == {0, 1, 9, 10, 15, 16, 127, 128, 171, 255}
CharCodes == {47, 48, 57, 58, 70, 71, 102, 103}

TokenValues == [1..TokenLen -> ByteValues]
Texts == UNION {[1..n -> CharCodes] : n \in 0..(2 * TokenLen + 1)}

\* the digit that %x prints for a half byte
HexChar(n) == IF n < 10 THEN 48 + n ELSE 87 + n

\* Token.MarshalText: fmt.Sprintf("%0x", t), two digits for each byte
TokenMarshalText(t) ==
  [i \in 1..(2 * Len(t)) |->
     IF i % 2 = 1 THEN HexChar(t[(i + 1) \div 2] \div 16)
     ELSE HexChar(t[i \div 2] % 16)]

\* an isHexDigit that takes every letter up to g and G
isHexDigitWide(char) ==
  \/ char >= 48 /\ char <= 57
  \/ char >= 97 /\ char <= 103
  \/ char >= 65 /\ char <= 71

\* isHexDigit
isHexDigit(char) ==
  \/ char >= 48 /\ char <= 57
  \/ char >= 97 /\ char <= 102
  \/ char >= 65 /\ char <= 70

\* the value that Fscanf's %x gives a digit
HexValue(char) ==
  IF char <= 57 THEN char - 48
  ELSE IF char >= 97 THEN char - 87
  ELSE char - 55

\* Token.UnmarshalText
TokenUnmarshalText(text) ==
  IF Len(text) # 2 * TokenLen
  THEN [err |-> "InvalidToken", val |-> <<>>]
  ELSE IF \E i \in 1..Len(text) : ~isHexDigit(text[i])
  THEN [err |-> "InvalidToken", val |-> <<>>]
  ELSE [err |-> "ok",
        val |-> [i \in 1..TokenLen |->
                   (16 * HexValue(text[2 * i - 1]) + HexValue(text[2 * i])) % 256]]

\* a call of t.MarshalText()
CallMarshalText ==
  /\ callIn = NoCall
  /\ \E t \in TokenValues :
       /\ callIn' = [op |-> "MarshalText", x |-> t, y |-> <<>>, z |-> <<>>]
       /\ callOut' = [err |-> "ok", val |-> TokenMarshalText(t), work |-> <<>>]
  /\ UNCHANGED <<coordVars, procVars, threadVars, mutex, nodes, Version,
                 CurrentToken, ConnInfo, rows, nextServer, nextToken, revoked,
                 highVersion, boots, LastPowerActions, lines, dconn, dclosed,
                 drvVars>>

\* a call of t.UnmarshalText(text)
CallUnmarshalText ==
  /\ callIn = NoCall
  /\ \E text \in Texts :
       /\ callIn' = [op |-> "UnmarshalText", x |-> text, y |-> <<>>, z |-> <<>>]
       /\ callOut' = [err |-> TokenUnmarshalText(text).err,
                      val |-> TokenUnmarshalText(text).val, work |-> <<>>]
  /\ UNCHANGED <<coordVars, procVars, threadVars, mutex, nodes, Version,
                 CurrentToken, ConnInfo, rows, nextServer, nextToken, revoked,
                 highVersion, boots, LastPowerActions, lines, dconn, dclosed,
                 drvVars>>

\* t.MarshalText() and UnmarshalText of its result, as the handlers of a
\* token's way to the client and back do
CallRoundTrip ==
  /\ callIn = NoCall
  /\ \E t \in TokenValues :
       /\ callIn' = [op |-> "RoundTrip", x |-> t, y |-> TokenMarshalText(t),
                     z |-> <<>>]
       /\ callOut' = [err |-> TokenUnmarshalText(TokenMarshalText(t)).err,
                      val |-> TokenUnmarshalText(TokenMarshalText(t)).val,
                      work |-> <<>>]
  /\ UNCHANGED <<coordVars, procVars, threadVars, mutex, nodes, Version,
                 CurrentToken, ConnInfo, rows, nextServer, nextToken, revoked,
                 highVersion, boots, LastPowerActions, lines, dconn, dclosed,
                 drvVars>>

TokenNext == CallMarshalText \/ CallUnmarshalText \/ CallRoundTrip

TokenSpec == Init /\ [][TokenNext]_vars

\* ----------------------------------------------------------- CompareSpec
\* Node.ValidToken and the comparison of adminR by themselves, each run
\* twice on the same presented token with two secrets, one call in each
\* behaviour.  The work of a comparison is the sequence of the byte
\* positions it looks at.
SecretBytes == {0, 1, 255}
Secrets == [1..TokenLen -> SecretBytes]

\* the passwords tried: texts of the right length over 0 f g, and a short one
Passwords == [1..(2 * TokenLen) -> {48, 102, 103}] \cup {<<48>>}

\* the loop of subtle.ConstantTimeCompare: v |= x[i] ^ y[i] for every i
RECURSIVE CompareFrom(_, _, _)
CompareFrom(x, y, i) ==
  IF i > Len(x) THEN [eq |-> TRUE, work |-> <<>>]
  ELSE LET rest == CompareFrom(x, y, i + 1)
       IN  [eq |-> (x[i] = y[i]) /\ rest.eq, work |-> <<i>> \o rest.work]

\* a comparison that stops at the first byte that differs
RECURSIVE CompareEarlyExitFrom(_, _, _)
CompareEarlyExitFrom(x, y, i) ==
  IF i > Len(x) THEN [eq |-> TRUE, work |-> <<>>]
  ELSE IF x[i] # y[i] THEN [eq |-> FALSE, work |-> <<i>>]
  ELSE LET rest == CompareEarlyExitFrom(x, y, i + 1)
       IN  [eq |-> rest.eq, work |-> <<i>> \o rest.work]

CompareEarlyExit(x, y) ==
  IF Len(x) # Len(y) THEN [eq |-> FALSE, work |-> <<>>]
  ELSE CompareEarlyExitFrom(x, y, 1)

\* subtle.ConstantTimeCompare(x, y) == 1, and the work done
ConstantTimeCompare(x, y) ==
  IF Len(x) # Len(y) THEN [eq |-> FALSE, work |-> <<>>]
  ELSE CompareFrom(x, y, 1)

\* Node.ValidToken on a node whose CurrentToken is cur
ValidTokenWork(cur, token) == ConstantTimeCompare(cur, token)

\* the MatcherFunc of adminR after `ok && user == "admin"`, for the
\* password pass and the config.AdminToken admin
adminRWork(pass, admin) ==
  IF TokenUnmarshalText(pass).err # "ok" THEN [eq |-> FALSE, work |-> <<>>]
  ELSE ConstantTimeCompare(TokenUnmarshalText(pass).val, admin)

CallValidToken ==
  /\ callIn = NoCall
  /\ \E token \in Secrets, cur1 \in Secrets, cur2 \in Secrets :
       /\ callIn' = [op |-> "ValidToken", x |-> token, y |-> cur1, z |-> cur2]
       /\ callOut' = [err |-> "ok",
                      val |-> <<ValidTokenWork(cur1, token).eq,
                                ValidTokenWork(cur2, token).eq>>,
                      work |-> <<ValidTokenWork(cur1, token).work,
                                 ValidTokenWork(cur2, token).work>>]
  /\ UNCHANGED <<coordVars, procVars, threadVars, mutex, nodes, Version,
                 CurrentToken, ConnInfo, rows, nextServer, nextToken, revoked,
                 highVersion, boots, LastPowerActions, lines, dconn, dclosed,
                 drvVars>>

CalladminR ==
  /\ callIn = NoCall
  /\ \E pass \in Passwords, admin1 \in Secrets, admin2 \in Secrets :
       /\ callIn' = [op |-> "adminR", x |-> pass, y |-> admin1, z |-> admin2]
       /\ callOut' = [err |-> TokenUnmarshalText(pass).err,
                      val |-> <<adminRWork(pass, admin1).eq,
                                adminRWork(pass, admin2).eq>>,
                      work |-> <<adminRWork(pass, admin1).work,
                                 adminRWork(pass, admin2).work>>]
  /\ UNCHANGED <<coordVars, procVars, threadVars, mutex, nodes, Version,
                 CurrentToken, ConnInfo, rows, nextServer, nextToken, revoked,
                 highVersion, boots, LastPowerActions, lines, dconn, dclosed,
                 drvVars>>

CompareNext == CallValidToken \/ CalladminR

CompareSpec == Init /\ [][CompareNext]_vars

\* ------------------------------------------------------------ StreamSpec
\* One Server whose callers dial, run closures and close streams; nobody
\* calls DropConsole and the context is not cancelled.  The select of Serve
\* picks at random among the cases that are ready, so a case that is ready
\* again and again is taken (strong fairness of the conn.drop arm; the
\* closures keep the arm from being ready all the time); a closure and the
\* driver's Dial return.
StreamNext ==
  \/ ServeConnDrop(TheServer)
  \/ \E t \in Threads : ServeFuncs(TheServer, t)
  \/ ServeFn(TheServer)
  \/ \E t \in Threads : ServeDialConsole(TheServer, t)
  \/ ServeDialOk(TheServer)
  \/ ServeDialFail(TheServer)
  \/ \E t \in Threads : CallDialConsole(t)
  \/ \E t \in Threads : CallRunInServer(t)
  \/ \E t \in Threads, c \in Procs : CallClose(t, c)
  \/ \E t \in Threads : Close(t)
  \/ \E t \in Threads : Return(t)

StreamSpec ==
  /\ Init
  /\ [][StreamNext]_vars
  /\ SF_vars(ServeConnDrop(TheServer))
  /\ WF_vars(ServeFn(TheServer))
  /\ WF_vars(ServeDialOk(TheServer) \/ ServeDialFail(TheServer))

\* ------------------------------------------------ claims on the Server
\* the console subprocesses that s dialed and that are not shut down
RunningOf(s) == {p \in Procs : procOwner[p] = s /\ procState[p] = "running"}

\* C1: a Coordinator never has more than one console subprocess that Dial
\* returned and that is not yet shut down, and when it is about to call the
\* driver's Dial none of its earlier subprocesses is still running.
C1_AtMostOneConsole ==
  \A s \in Servers :
    /\ Cardinality(RunningOf(s)) <= 1
    /\ srvpc[s] = "dial" => RunningOf(s) = {}

\* the Server is about to Dial again after an earlier subprocess of its own
C1_Witness ==
  \E s \in Servers :
    /\ srvpc[s] = "dial"
    /\ \E p \in Procs : procOwner[p] = s /\ procState[p] = "shutdown"

\* C2: two successful DialConsole calls on one Coordinator return different
\* streams, and when the later one has been handed out the subprocess behind
\* the earlier one is shut down.
C2_BackToBackDial ==
  /\ \A c1, c2 \in Procs :
       (delivered[c1] /\ delivered[c2] /\ procOwner[c1] = procOwner[c2] /\ c1 < c2)
         => procState[c1] = "shutdown"
  /\ \A t1, t2 \in Threads :
       (t1 # t2 /\ tpc[t1] = "done" /\ tpc[t2] = "done"
          /\ tres[t1].val # NoProc /\ tres[t2].val # NoProc)
         => tres[t1].val # tres[t2].val

\* the second of two dials on one Server has just returned its stream
C2_Witness ==
  \E t \in Threads, c \in Procs :
    /\ tpc[t] = "done" /\ tres[t].err = "ok" /\ tres[t].val # NoProc
    /\ c < tres[t].val
    /\ delivered[c] /\ procOwner[c] = procOwner[tres[t].val]

\* a caller at one of these has sent nothing yet: its request is not accepted
Waiting == {"DropConsole_send", "DialConsole_send", "RunInServer_send"}

\* C8: while a closure of RunInServer runs, the Coordinator takes no other
\* event: it starts no dial, no teardown and no other closure, its console
\* is untouched, and the caller of RunInServer is released only by the end
\* of its own closure.
C8_RunInsideLoop ==
  [][\A s \in Servers :
       srvpc[s] = "fn" =>
         /\ req[s] \in Threads
         /\ tpc[req[s]] = "RunInServer_recv" /\ tsrv[req[s]] = s
         /\ \A t \in Threads :
              (tpc[t] = "RunInServer_recv" /\ tsrv[t] = s) => t = req[s]
         /\ srvpc'[s] \in {"fn", "select"}
         /\ proc'[s] = proc[s] /\ conn'[s] = conn[s]
         /\ \A p \in Procs : procOwner[p] = s =>
              /\ procState'[p] = procState[p]
              /\ dropbuf'[p] >= dropbuf[p]
         /\ \A t \in Threads :
              (t # req[s] /\ tsrv[t] = s /\ tpc[t] \in Waiting) => tpc'[t] = tpc[t]
         /\ tpc'[req[s]] # tpc[req[s]] => srvpc'[s] = "select"
    ]_vars

\* a closure is running with a console active while another caller waits
\* with a dial for the same Server
C8_Witness ==
  \E s \in Servers, t \in Threads :
    /\ srvpc[s] = "fn" /\ proc[s] # NoProc
    /\ tpc[t] = "DialConsole_send" /\ tsrv[t] = s

\* ------------------------------------------------------ Node and State
\* The registry as a value, so that State's methods compose the way the
\* Daemon calls them one after the other under its mutex.
Registry ==
  [nodes |-> nodes, Version |-> Version, CurrentToken |-> CurrentToken,
   ConnInfo |-> ConnInfo, rows |-> rows, srvpc |-> srvpc, ctxDone |-> ctxDone,
   nextServer |-> nextServer, err |-> "ok"]

Commit(st) ==
  /\ nodes' = st.nodes
  /\ Version' = st.Version
  /\ CurrentToken' = st.CurrentToken
  /\ ConnInfo' = st.ConnInfo
  /\ rows' = st.rows
  /\ srvpc' = st.srvpc
  /\ ctxDone' = st.ctxDone
  /\ nextServer' = st.nextServer
  /\ highVersion' = [l \in Labels |->
                       IF st.Version[l] > highVersion[l] THEN st.Version[l]
                       ELSE highVersion[l]]
  /\ UNCHANGED auxVars

\* a GetOBM that hands every body to one driver, whatever its "type"
GetOBMOneDriver(info) == IF info = "bad" THEN "driver" ELSE "ok"

\* Registry.GetOBM, then the GetOBM of the driver it names: "x" is a body
\* whose "type" is not in the Registry, "bad" is one that the driver's
\* json.Unmarshal rejects
GetOBM(info) ==
  IF info = "x" THEN "UnknownType"
  ELSE IF info = "bad" THEN "driver"
  ELSE "ok"

\* a ValidToken that accepts every token
ValidTokenAny(l, token) == TRUE

\* Node.ValidToken: subtle.ConstantTimeCompare(n.CurrentToken[:], token[:]) == 1
ValidToken(l, token) == CurrentToken[l] = token

\* a StartOBM that does not start the goroutine of Serve
StartOBMNever(st, s) == st

\* Node.StartOBM: go n.OBM.Serve(ctx)
StartOBM(st, s) == [st EXCEPT !.srvpc[s] = "select"]

\* a StopOBM that forgets to call the CancelFunc
StopOBMSkip(st, s) == st

\* Node.StopOBM: n.ObmCancel()
StopOBM(st, s) == [st EXCEPT !.ctxDone[s] = TRUE]

\* a GetNode that never finds the label
GetNodeNotFound(st, l) == "NoSuchNode"

\* State.GetNode
GetNode(st, l) == IF st.nodes[l] = NoServer THEN "NoSuchNode" ELSE "ok"

\* a NewNode that puts the node in the map before the INSERT and leaves it
\* there when the INSERT fails
StateNewNodeMapFirst(st, l, info, version, sqlOk) ==
  IF st.nodes[l] # NoServer THEN [st EXCEPT !.err = "NodeExists"]
  ELSE IF GetOBM(info) # "ok" THEN [st EXCEPT !.err = GetOBM(info)]
  ELSE [st EXCEPT !.nodes[l] = st.nextServer,
                  !.srvpc[st.nextServer] = "select",
                  !.Version[l] = version,
                  !.CurrentToken[l] = noToken,
                  !.ConnInfo[l] = info,
                  !.rows[l] = IF sqlOk /\ st.rows[l] = NoRow
                              THEN [version |-> version, info |-> info] ELSE @,
                  !.nextServer = @ + 1,
                  !.err = IF sqlOk /\ st.rows[l] = NoRow THEN "ok" ELSE "sql"]

\* State.NewNode (with NewNode of the node file: no valid token)
StateNewNode(st, l, info, version, sqlOk) ==
  IF GetNode(st, l) = "ok" THEN [st EXCEPT !.err = "NodeExists"]
  ELSE IF GetOBM(info) # "ok" THEN [st EXCEPT !.err = GetOBM(info)]
  ELSE IF ~sqlOk \/ st.rows[l] # NoRow THEN [st EXCEPT !.err = "sql"]
  ELSE StartOBM([st EXCEPT !.nodes[l] = st.nextServer,
                           !.Version[l] = version,
                           !.CurrentToken[l] = noToken,
                           !.ConnInfo[l] = info,
                           !.rows[l] = [version |-> version, info |-> info],
                           !.nextServer = @ + 1,
                           !.err = "ok"],
                st.nextServer)

\* a BumpNodeVersion that does not back the change out when the UPDATE fails
BumpNodeVersionKeep(st, l, sqlOk) ==
  IF st.nodes[l] = NoServer THEN [st EXCEPT !.err = "NoSuchNode"]
  ELSE [st EXCEPT !.Version[l] = @ + 1,
                  !.rows[l].version = IF sqlOk THEN st.Version[l] + 1 ELSE @,
                  !.err = IF sqlOk THEN "ok" ELSE "sql"]

\* State.BumpNodeVersion
BumpNodeVersion(st, l, sqlOk) ==
  IF GetNode(st, l) # "ok" THEN [st EXCEPT !.err = "NoSuchNode"]
  ELSE IF sqlOk
       THEN [st EXCEPT !.Version[l] = @ + 1, !.rows[l].version = st.Version[l] + 1,
                       !.err = "ok"]
       ELSE [st EXCEPT !.err = "sql"]   \* node.Version-- backs the change out

\* State.DeleteNode
StateDeleteNode(st, l, sqlOk) ==
  IF GetNode(st, l) = "ok"
  THEN [StopOBM(st, st.nodes[l]) EXCEPT
          !.nodes[l] = NoServer, !.Version[l] = 0, !.CurrentToken[l] = noToken,
          !.ConnInfo[l] = "none",
          !.rows[l] = IF sqlOk THEN NoRow ELSE @,
          !.err = IF sqlOk THEN "ok" ELSE "sql"]
  ELSE [st EXCEPT !.err = "ok"]

\* --------------------------------------------------------------- Daemon
\* The method has its return values; the deferred d.Unlock() is still to run.
Returns(t, op, l, err, val) ==
  /\ mutex' = t
  /\ tpc' = [tpc EXCEPT ![t] = "ret"]
  /\ top' = [top EXCEPT ![t] = op]
  /\ tlabel' = [tlabel EXCEPT ![t] = l]
  /\ tres' = [tres EXCEPT ![t] = [err |-> err, val |-> val]]

\* a Daemon without its mutex
LockFree(t) == tpc[t] = "idle"

\* d.Lock(): a caller waiting for the mutex has done nothing yet
Lock(t) == tpc[t] = "idle" /\ mutex = NoThread

\* Daemon.DeleteNode
DeleteNode(t, l) ==
  /\ Lock(t)
  /\ \E sqlOk \in BOOLEAN :
       LET st == StateDeleteNode(Registry, l, sqlOk) IN
       /\ Commit(st)
       /\ Returns(t, "DeleteNode", l, st.err, 0)
       /\ revoked' = [revoked EXCEPT ![l] = IF st.err = "ok" THEN nextToken - 1 ELSE @]
  /\ UNCHANGED <<proc, conn, req, procVars, tsrv, tconn, tcmd, targ, tinfo, ttok, nextToken>>

\* Daemon.SetNode as it re-registers an existing label at version+1
SetNode(t, l, info) ==
  /\ Lock(t)
  /\ nextServer <= MaxServers
  /\ GetNode(Registry, l) = "ok" => Version[l] < MaxVersion
  /\ \E sqlDel, sqlIns \in BOOLEAN :
       LET st0 == Registry
           st1 == StateDeleteNode(st0, l, sqlDel)
           st == IF GetNode(st0, l) = "ok"
                 THEN IF st1.err # "ok" THEN st1
                      ELSE StateNewNode(st1, l, info, st0.Version[l] + 1, sqlIns)
                 ELSE StateNewNode(st0, l, info, 0, sqlIns)
       IN
       /\ Commit(st)
       /\ Returns(t, "SetNode", l, st.err, 0)
       /\ revoked' = [revoked EXCEPT ![l] = IF st.err = "ok" THEN nextToken - 1 ELSE @]
  /\ tinfo' = [tinfo EXCEPT ![t] = info]
  /\ UNCHANGED <<proc, conn, req, procVars, tsrv, tconn, tcmd, targ, ttok, nextToken>>

\* Daemon.SetNode as it refuses an existing label (ErrNodeExists)
SetNodeIfAbsent(t, l, info) ==
  /\ Lock(t)
  /\ nextServer <= MaxServers
  /\ \E sqlIns \in BOOLEAN :
       LET st == IF GetNode(Registry, l) = "ok"
                 THEN [Registry EXCEPT !.err = "NodeExists"]
                 ELSE StateNewNode(Registry, l, info, 0, sqlIns)
       IN
       /\ Commit(st)
       /\ Returns(t, "SetNodeIfAbsent", l, st.err, 0)
       /\ revoked' = [revoked EXCEPT ![l] = IF st.err = "ok" THEN nextToken - 1 ELSE @]
  /\ tinfo' = [tinfo EXCEPT ![t] = info]
  /\ UNCHANGED <<proc, conn, req, procVars, tsrv, tconn, tcmd, targ, ttok, nextToken>>

\* Daemon.GetNodeVersion
GetNodeVersion(t, l) ==
  /\ Lock(t)
  /\ IF GetNode(Registry, l) # "ok"
     THEN Returns(t, "GetNodeVersion", l, "NoSuchNode", 0)
     ELSE Returns(t, "GetNodeVersion", l, "ok", Version[l])
  /\ UNCHANGED <<coordVars, procVars, tsrv, tconn, tcmd, targ, tinfo, ttok, nodes, Version,
                 CurrentToken, ConnInfo, rows, nextServer, nextToken, revoked, highVersion, auxVars>>

\* The method goes on to call into the node's Server, keeping the mutex.
Calls(t, op, l) ==
  /\ mutex' = t
  /\ top' = [top EXCEPT ![t] = op]
  /\ tlabel' = [tlabel EXCEPT ![t] = l]

\* `version != node.Version+1` of SetNodeVersion, negated
IsNextVersion(l, version) == version = Version[l] + 1

\* Daemon.SetNodeVersion up to node.OBM.DropConsole()
SetNodeVersion(t, l, version) ==
  /\ Lock(t)
  /\ targ' = [targ EXCEPT ![t] = version]
  /\ UNCHANGED tinfo
  /\ \E sqlOk \in BOOLEAN :
       LET st == BumpNodeVersion(Registry, l, sqlOk) IN
       IF GetNode(Registry, l) # "ok"
       THEN /\ Returns(t, "SetNodeVersion", l, "NoSuchNode", 0)
            /\ UNCHANGED <<coordVars, tsrv, nodes, Version, CurrentToken,
                           ConnInfo, rows, nextServer, highVersion, auxVars>>
       ELSE IF ~IsNextVersion(l, version)
       THEN /\ Returns(t, "SetNodeVersion", l, "VersionConflict", Version[l])
            /\ UNCHANGED <<coordVars, tsrv, nodes, Version, CurrentToken,
                           ConnInfo, rows, nextServer, highVersion, auxVars>>
       ELSE IF st.err # "ok"
       THEN /\ Commit(st)
            /\ Returns(t, "SetNodeVersion", l, st.err, st.Version[l])
            /\ UNCHANGED <<proc, conn, req, tsrv>>
       ELSE /\ Commit(st)
            /\ Calls(t, "SetNodeVersion", l)
            /\ DropConsole(t, nodes[l])
            /\ UNCHANGED <<proc, conn, req, tres>>
  /\ UNCHANGED <<procVars, tconn, tcmd, ttok, nextToken, revoked>>

\* Daemon.SetNodeVersion: return node.Version, err
SetNodeVersionRet(t) ==
  /\ tpc[t] = "back"
  /\ top[t] = "SetNodeVersion"
  /\ Returns(t, "SetNodeVersion", tlabel[t], "ok", Version[tlabel[t]])
  /\ UNCHANGED <<coordVars, procVars, tsrv, tconn, tcmd, targ, tinfo, ttok, nodes, Version, CurrentToken, ConnInfo, rows, nextServer,
                 nextToken, revoked, highVersion, auxVars>>

\* a ClearToken that leaves the token in place
ClearTokenKeep(l) == CurrentToken

\* Node.ClearToken after n.OBM.DropConsole() returned:
\* copy(n.CurrentToken[:], noToken[:])
ClearToken(l) == [CurrentToken EXCEPT ![l] = noToken]

\* a GetNodeToken that mints whatever version the admin expected
VersionAny(l, version) == TRUE

\* `version != node.Version` of GetNodeToken, negated
VersionMatches(l, version) == version = Version[l]

\* Daemon.GetNodeToken up to the DropConsole of Node.NewToken's ClearToken
GetNodeToken(t, l, version) ==
  /\ Lock(t)
  /\ targ' = [targ EXCEPT ![t] = version]
  /\ UNCHANGED tinfo
  /\ \E randOk \in BOOLEAN :
       IF GetNode(Registry, l) # "ok"
       THEN /\ Returns(t, "GetNodeToken", l, "NoSuchNode", 0)
            /\ UNCHANGED <<tsrv, ttok, nextToken>>
       ELSE IF ~VersionMatches(l, version)
       THEN /\ Returns(t, "GetNodeToken", l, "VersionConflict", Version[l])
            /\ UNCHANGED <<tsrv, ttok, nextToken>>
       ELSE IF ~randOk \/ nextToken > MaxTokens
       THEN /\ Returns(t, "GetNodeToken", l, "rand", Version[l])
            /\ UNCHANGED <<tsrv, ttok, nextToken>>
       ELSE /\ ttok' = [ttok EXCEPT ![t] = nextToken]
            /\ nextToken' = nextToken + 1
            /\ Calls(t, "GetNodeToken", l)
            /\ DropConsole(t, nodes[l])
            /\ UNCHANGED tres
  /\ UNCHANGED <<coordVars, procVars, tconn, tcmd, nodes, Version,
                 CurrentToken, ConnInfo, rows, nextServer, revoked, highVersion, auxVars>>

\* Node.NewToken: ClearToken's copy of noToken, then
\* copy(n.CurrentToken[:], token[:]); return n.CurrentToken
GetNodeTokenRet(t) ==
  /\ tpc[t] = "back"
  /\ top[t] = "GetNodeToken"
  /\ CurrentToken' = [ClearToken(tlabel[t]) EXCEPT ![tlabel[t]] = ttok[t]]
  /\ Returns(t, "GetNodeToken", tlabel[t], "ok", ttok[t])
  /\ UNCHANGED <<coordVars, procVars, tsrv, tconn, tcmd, targ, tinfo, ttok, nodes, Version,
                 ConnInfo, rows, nextServer, nextToken, revoked, highVersion, auxVars>>

\* Daemon.InvalidateNodeToken up to the DropConsole of node.ClearToken()
InvalidateNodeToken(t, l) ==
  /\ Lock(t)
  /\ IF GetNode(Registry, l) # "ok"
     THEN /\ Returns(t, "InvalidateNodeToken", l, "NoSuchNode", 0)
          /\ UNCHANGED tsrv
     ELSE /\ Calls(t, "InvalidateNodeToken", l)
          /\ DropConsole(t, nodes[l])
          /\ UNCHANGED tres
  /\ UNCHANGED <<coordVars, procVars, tconn, tcmd, targ, tinfo, ttok, nodes,
                 Version, CurrentToken, ConnInfo, rows, nextServer, nextToken,
                 revoked, highVersion, auxVars>>

\* Daemon.InvalidateNodeToken: the rest of ClearToken; return nil
InvalidateNodeTokenRet(t) ==
  /\ tpc[t] = "back"
  /\ top[t] = "InvalidateNodeToken"
  /\ CurrentToken' = ClearToken(tlabel[t])
  /\ revoked' = [revoked EXCEPT ![tlabel[t]] = nextToken - 1]
  /\ Returns(t, "InvalidateNodeToken", tlabel[t], "ok", 0)
  /\ UNCHANGED <<coordVars, procVars, tsrv, tconn, tcmd, targ, tinfo, ttok, nodes, Version,
                 ConnInfo, rows, nextServer, nextToken, highVersion, auxVars>>

\* Daemon.getNodeWithToken
getNodeWithToken(l, token) ==
  IF GetNode(Registry, l) # "ok" THEN "NoSuchNode"
  ELSE IF ~ValidToken(l, token) THEN "InvalidToken"
  ELSE "ok"

\* Daemon.DialNodeConsole up to node.OBM.DialConsole()
DialNodeConsole(t, l, token) ==
  /\ Lock(t)
  /\ targ' = [targ EXCEPT ![t] = token]
  /\ UNCHANGED tinfo
  /\ IF getNodeWithToken(l, token) # "ok"
     THEN /\ Returns(t, "DialNodeConsole", l, getNodeWithToken(l, token), 0)
          /\ UNCHANGED tsrv
     ELSE /\ Calls(t, "DialNodeConsole", l)
          /\ DialConsole(t, nodes[l])
          /\ UNCHANGED tres
  /\ UNCHANGED <<coordVars, procVars, tconn, tcmd, ttok, nodes, Version,
                 CurrentToken, ConnInfo, rows, nextServer, nextToken, revoked, highVersion, auxVars>>

\* the four control methods of the Daemon share their shape: getNodeWithToken,
\* then the driver method, which runs its command through RunInServer
Control(t, l, token, op, cmd) ==
  /\ Lock(t)
  /\ targ' = [targ EXCEPT ![t] = token]
  /\ UNCHANGED tinfo
  /\ IF getNodeWithToken(l, token) # "ok"
     THEN /\ Returns(t, op, l, getNodeWithToken(l, token), 0)
          /\ UNCHANGED <<tsrv, tcmd>>
     ELSE /\ Calls(t, op, l)
          /\ RunInServer(t, nodes[l], cmd)
          /\ UNCHANGED tres
  /\ UNCHANGED <<coordVars, procVars, tconn, ttok, nodes, Version,
                 CurrentToken, ConnInfo, rows, nextServer, nextToken, revoked, highVersion, auxVars>>

PowerOffNode(t, l, token) == Control(t, l, token, "PowerOffNode", "power off")
PowerCycleNode(t, l, token) == Control(t, l, token, "PowerCycleNode", "power cycle")
SetNodeBootDev(t, l, token) == Control(t, l, token, "SetNodeBootDev", "bootdev")
GetNodePowerStatus(t, l, token) ==
  Control(t, l, token, "GetNodePowerStatus", "power status")

\* The deferred d.Unlock() runs and the method returns to its handler in
\* http.go.  The console handler that got a stream goes on as the consumer
\* of that conn: the copy loop, with conn.Close() deferred.
Unlock(t) ==
  /\ tpc[t] = "ret"
  /\ mutex' = NoThread
  /\ tpc' = [tpc EXCEPT ![t] = "idle"]
  /\ cpc' = IF top[t] = "DialNodeConsole" /\ tres[t].err = "ok"
            THEN [cpc EXCEPT ![tres[t].val] = "stream"]
            ELSE cpc
  /\ tsrv' = [tsrv EXCEPT ![t] = NoServer]
  /\ tcmd' = [tcmd EXCEPT ![t] = "none"]
  /\ tres' = [tres EXCEPT ![t] = NoResult]
  /\ top' = [top EXCEPT ![t] = "direct"]
  /\ tlabel' = [tlabel EXCEPT ![t] = "none"]
  /\ targ' = [targ EXCEPT ![t] = 0]
  /\ tinfo' = [tinfo EXCEPT ![t] = "none"]
  /\ ttok' = [ttok EXCEPT ![t] = noToken]
  /\ UNCHANGED <<coordVars, nextProc, procState, procOwner, shutdowns, NumWrites, dropbuf,
                 dropped, delivered, tconn, nodes, Version, CurrentToken,
                 ConnInfo, rows, nextServer, nextToken, revoked, highVersion, auxVars>>

\* conn.Read fails once the subprocess behind the stream is shut down: the
\* copy loop ends and the deferred conn.Close() runs up to its send
ReadEOF(c) ==
  /\ cpc[c] = "stream"
  /\ procState[c] = "shutdown"
  /\ cpc' = [cpc EXCEPT ![c] =
       IF closeRead(c) = "return" THEN "closed" ELSE closeRead(c)]
  /\ UNCHANGED <<coordVars, nextProc, procState, procOwner, shutdowns, NumWrites, dropbuf,
                 dropped, delivered, threadVars, daemonVars>>

\* w.Write fails because the HTTP client went away: the same exit
ClientGone(c) ==
  /\ cpc[c] = "stream"
  /\ procState[c] = "running"
  /\ cpc' = [cpc EXCEPT ![c] =
       IF closeRead(c) = "return" THEN "closed" ELSE closeRead(c)]
  /\ UNCHANGED <<coordVars, nextProc, procState, procOwner, shutdowns, NumWrites, dropbuf,
                 dropped, delivered, threadVars, daemonVars>>

\* the send of the handler's deferred conn.Close()
HandlerCloseSend(c) ==
  /\ cpc[c] = "Close_send"
  /\ closeSend(c)
  /\ cpc' = [cpc EXCEPT ![c] = "closed"]
  /\ UNCHANGED <<coordVars, nextProc, procState, procOwner, shutdowns, NumWrites, delivered,
                 threadVars, daemonVars>>

\* ------------------------------------------------------------ DaemonSpec
Versions == 0..MaxVersion

DaemonInit ==
  /\ srvpc = [s \in Servers |-> "off"]
  /\ proc = [s \in Servers |-> NoProc]
  /\ conn = [s \in Servers |-> NoProc]
  /\ req = [s \in Servers |-> NoThread]
  /\ ctxDone = [s \in Servers |-> FALSE]
  /\ nextProc = 1
  /\ procState = [p \in Procs |-> "none"]
  /\ procOwner = [p \in Procs |-> NoServer]
  /\ shutdowns = [p \in Procs |-> 0]
  /\ dropbuf = [p \in Procs |-> 0]
  /\ dropped = [p \in Procs |-> FALSE]
  /\ delivered = [p \in Procs |-> FALSE]
  /\ cpc = [p \in Procs |-> "none"]
  /\ tpc = [t \in Threads |-> "idle"]
  /\ tsrv = [t \in Threads |-> NoServer]
  /\ tconn = [t \in Threads |-> NoProc]
  /\ top = [t \in Threads |-> "direct"]
  /\ tcmd = [t \in Threads |-> "none"]
  /\ tres = [t \in Threads |-> NoResult]
  /\ tlabel = [t \in Threads |-> "none"]
  /\ targ = [t \in Threads |-> 0]
  /\ tinfo = [t \in Threads |-> "none"]
  /\ ttok = [t \in Threads |-> noToken]
  /\ mutex = NoThread
  /\ nodes = [l \in Labels |-> NoServer]
  /\ Version = [l \in Labels |-> 0]
  /\ CurrentToken = [l \in Labels |-> noToken]
  /\ ConnInfo = [l \in Labels |-> "none"]
  /\ rows = [l \in Labels |-> NoRow]
  /\ nextServer = 1
  /\ nextToken = 1
  /\ revoked = [l \in Labels |-> 0]
  /\ highVersion = [l \in Labels |-> 0]
  /\ boots = 0
  /\ NumWrites = [s \in Servers |-> 0]
  /\ LastPowerActions = [a \in MockAddrs |-> "none"]
  /\ lines = [p \in Procs |-> <<>>]
  /\ dconn = NoProc
  /\ dclosed = {}
  /\ dlog = "none"
  /\ status = [t \in Threads |-> "none"]
  /\ issued = [t \in Threads |-> <<>>]
  /\ faulty = {}
  /\ callIn = NoCall
  /\ callOut = NoOut

DaemonNext ==
  \/ \E s \in Servers : Serve(s)
  \/ \E t \in Threads, l \in Labels : DeleteNode(t, l)
  \/ \E t \in Threads, l \in Labels, info \in Infos : SetNode(t, l, info)
  \/ \E t \in Threads, l \in Labels, info \in Infos : SetNodeIfAbsent(t, l, info)
  \/ \E t \in Threads, l \in Labels : GetNodeVersion(t, l)
  \/ \E t \in Threads, l \in Labels, v \in Versions : SetNodeVersion(t, l, v)
  \/ \E t \in Threads : SetNodeVersionRet(t)
  \/ \E t \in Threads, l \in Labels, v \in Versions : GetNodeToken(t, l, v)
  \/ \E t \in Threads : GetNodeTokenRet(t)
  \/ \E t \in Threads, l \in Labels : InvalidateNodeToken(t, l)
  \/ \E t \in Threads : InvalidateNodeTokenRet(t)
  \/ \E t \in Threads, l \in Labels, k \in Tokens : DialNodeConsole(t, l, k)
  \/ \E t \in Threads, l \in Labels, k \in Tokens : PowerOffNode(t, l, k)
  \/ \E t \in Threads, l \in Labels, k \in Tokens : PowerCycleNode(t, l, k)
  \/ \E t \in Threads, l \in Labels, k \in Tokens : SetNodeBootDev(t, l, k)
  \/ \E t \in Threads, l \in Labels, k \in Tokens : GetNodePowerStatus(t, l, k)
  \/ \E t \in Threads : Unlock(t)
  \/ \E c \in Procs : ReadEOF(c)
  \/ \E c \in Procs : ClientGone(c)
  \/ \E c \in Procs : HandlerCloseSend(c)

DaemonSpec == DaemonInit /\ [][DaemonNext]_vars

\* ---------------------------------------------------------- RegisterSpec
\* The admin side of the Daemon alone (register, re-register, delete, read
\* the version, mint a token), with two obm_info bodies the driver accepts,
\* so that a re-registration can replace the info by another one.
RegisterInfos == Infos \cup {"b", "x"}

RegisterNext ==
  \/ \E s \in Servers : ServeCtxDone(s)
  \/ \E s \in Servers, t \in Threads : ServeDropConsole(s, t)
  \/ \E s \in Servers : ServeStop(s)
  \/ \E t \in Threads, l \in Labels : DeleteNode(t, l)
  \/ \E t \in Threads, l \in Labels, info \in RegisterInfos : SetNode(t, l, info)
  \/ \E t \in Threads, l \in Labels : GetNodeVersion(t, l)
  \/ \E t \in Threads, l \in Labels, v \in Versions : GetNodeToken(t, l, v)
  \/ \E t \in Threads : GetNodeTokenRet(t)
  \/ \E t \in Threads : Unlock(t)

RegisterSpec == DaemonInit /\ [][RegisterNext]_vars

\* ----------------------------------------------------------- RestartSpec
MaxBoots == 2        \* processes started on the table after the first one

\* the labels that have a row
Stored == {l \in Labels : rows[l] # NoRow}

\* `ret.nodes[label] = node` for every row: one new OBM each
LoadedServer ==
  CHOOSE f \in [Stored -> 1..Cardinality(Stored)] :
    \A a, b \in Stored : a # b => f[a] # f[b]

\* The process ends between two requests, with no console open, and a new
\* one calls NewState on the same table.  Nothing of the old process is
\* left: its Servers are gone with it, the new Servers are numbered from 1
\* again.  A row whose info the driver refuses makes NewState fail, and
\* main exits.
NewState ==
  /\ boots < MaxBoots
  /\ mutex = NoThread
  /\ \A t \in Threads : tpc[t] = "idle"
  /\ \A p \in Procs : procState[p] # "running" /\ cpc[p] \notin {"stream", "Close_send"}
  /\ \A l \in Stored : GetOBM(rows[l].info) = "ok"
  /\ Cardinality(Stored) <= MaxServers
  /\ boots' = boots + 1
  /\ nodes' = [l \in Labels |-> IF l \in Stored THEN LoadedServer[l] ELSE NoServer]
  /\ Version' = [l \in Labels |-> IF l \in Stored THEN rows[l].version ELSE 0]
  /\ ConnInfo' = [l \in Labels |-> IF l \in Stored THEN rows[l].info ELSE "none"]
  /\ CurrentToken' = [l \in Labels |-> noToken]
  /\ srvpc' = [s \in Servers |-> IF s <= Cardinality(Stored) THEN "select" ELSE "off"]
  /\ proc' = [s \in Servers |-> NoProc]
  /\ conn' = [s \in Servers |-> NoProc]
  /\ req' = [s \in Servers |-> NoThread]
  /\ ctxDone' = [s \in Servers |-> FALSE]
  /\ NumWrites' = [s \in Servers |-> 0]
  /\ nextServer' = Cardinality(Stored) + 1
  /\ revoked' = [l \in Labels |-> nextToken - 1]
  /\ UNCHANGED <<nextProc, procState, procOwner, shutdowns, dropbuf, dropped,
                 delivered, cpc, threadVars, mutex, rows, nextToken, highVersion,
                 LastPowerActions, lines, dconn, dclosed,
                 drvVars, pureVars>>

\* The Daemon over a table that outlives it: register, re-register, delete,
\* bump, mint, present a token, and start again.
RestartNext ==
  \/ \E s \in Servers : ServeCtxDone(s)
  \/ \E s \in Servers, t \in Threads : ServeDropConsole(s, t)
  \/ \E s \in Servers : ServeStop(s)
  \/ \E s \in Servers, t \in Threads : ServeFuncs(s, t)
  \/ \E s \in Servers : ServeFn(s)
  \/ \E t \in Threads, l \in Labels : DeleteNode(t, l)
  \/ \E t \in Threads, l \in Labels, info \in Infos : SetNode(t, l, info)
  \/ \E t \in Threads, l \in Labels, v \in Versions : SetNodeVersion(t, l, v)
  \/ \E t \in Threads : SetNodeVersionRet(t)
  \/ \E t \in Threads, l \in Labels, v \in Versions : GetNodeToken(t, l, v)
  \/ \E t \in Threads : GetNodeTokenRet(t)
  \/ \E t \in Threads, l \in Labels, k \in Tokens : PowerOffNode(t, l, k)
  \/ \E t \in Threads : Unlock(t)
  \/ NewState

\* The goroutine of a Server that is running keeps running (each of its
\* steps changes srvpc).
RestartSpec ==
  /\ DaemonInit
  /\ [][RestartNext]_vars
  /\ \A s \in Servers : WF_srvpc(ServeStop(s)) /\ WF_srvpc(ServeFn(s))
  /\ \A s \in Servers, t \in Threads :
       WF_srvpc(ServeDropConsole(s, t)) /\ WF_srvpc(ServeFuncs(s, t))

\* -------------------------------------------------------------- HttpSpec
\* The admin routes of the handler, in front of the Daemon.

\* Authorization headers: none, or Basic user:password
Creds == {"none", "bob:t1", "admin:junk", "admin:t2", "admin:t1"}

\* config.AdminToken, in its text form
AdminToken == "t1"

\* req.BasicAuth()
BasicAuth(h) ==
  IF h = "none" THEN [ok |-> FALSE, user |-> "", pass |-> ""]
  ELSE IF h = "bob:t1" THEN [ok |-> TRUE, user |-> "bob", pass |-> "t1"]
  ELSE IF h = "admin:junk" THEN [ok |-> TRUE, user |-> "admin", pass |-> "junk"]
  ELSE IF h = "admin:t2" THEN [ok |-> TRUE, user |-> "admin", pass |-> "t2"]
  ELSE [ok |-> TRUE, user |-> "admin", pass |-> "t1"]

\* Token.UnmarshalText: the text of a token, or an error
UnmarshalText(text) == IF text \in {"t1", "t2"} THEN text ELSE "err"

\* a matcher that looks at the user name only
adminRUserOnly(h) == BasicAuth(h).ok /\ BasicAuth(h).user = "admin"

\* the MatcherFunc of adminR
adminR(h) ==
  /\ BasicAuth(h).ok /\ BasicAuth(h).user = "admin"
  /\ UnmarshalText(BasicAuth(h).pass) # "err"
  /\ UnmarshalText(BasicAuth(h).pass) = AdminToken

\* the requests made: the four admin routes, and a path that no route has
Requests ==
  {<<"PUT", "/node/{node_id}">>, <<"DELETE", "/node/{node_id}">>,
   <<"POST", "/node/{node_id}/token">>, <<"DELETE", "/node/{node_id}/token">>,
   <<"GET", "/nope">>}

\* the routes registered on adminR
AdminRoute(method, path) ==
  IF method = "PUT" /\ path = "/node/{node_id}" THEN "SetNode"
  ELSE IF method = "DELETE" /\ path = "/node/{node_id}" THEN "DeleteNode"
  ELSE IF method = "POST" /\ path = "/node/{node_id}/token" THEN "GetNodeToken"
  ELSE IF method = "DELETE" /\ path = "/node/{node_id}/token"
  THEN "InvalidateNodeToken"
  ELSE "NotFound"

\* the router: the routes of adminR are tried only when its matcher
\* accepts the request; the routes for token holders have other paths
Match(method, path, h) ==
  IF adminR(h) THEN AdminRoute(method, path) ELSE "NotFound"

\* no route matches: the router's NotFoundHandler answers 404
NotFound(t, l, path, h) ==
  /\ tpc[t] = "idle"
  /\ tpc' = [tpc EXCEPT ![t] = "done"]
  /\ top' = [top EXCEPT ![t] = "NotFound"]
  /\ tlabel' = [tlabel EXCEPT ![t] = l]
  /\ tcmd' = [tcmd EXCEPT ![t] = path]
  /\ tinfo' = [tinfo EXCEPT ![t] = h]
  /\ tres' = [tres EXCEPT ![t] = [err |-> "NotFound", val |-> 404]]
  /\ UNCHANGED <<coordVars, procVars, tsrv, tconn, targ, ttok, daemonVars>>

\* handler.ServeHTTP for a request on a node's admin paths or an unknown
\* one; the PUT handler reads the body
ServeHTTP(t, method, path, l, h) ==
  \/ /\ Match(method, path, h) = "SetNode"
     /\ \E info \in Infos : SetNodeIfAbsent(t, l, info)
  \/ Match(method, path, h) = "DeleteNode" /\ DeleteNode(t, l)
  \/ Match(method, path, h) = "GetNodeToken" /\ GetNodeToken(t, l, Version[l])
  \/ Match(method, path, h) = "InvalidateNodeToken" /\ InvalidateNodeToken(t, l)
  \/ Match(method, path, h) = "NotFound" /\ NotFound(t, l, path, h)

HttpNext ==
  \/ \E s \in Servers : ServeCtxDone(s)
  \/ \E s \in Servers, t \in Threads : ServeDropConsole(s, t)
  \/ \E s \in Servers : ServeStop(s)
  \/ \E t \in Threads, r \in Requests, l \in Labels, h \in Creds :
       ServeHTTP(t, r[1], r[2], l, h)
  \/ \E t \in Threads : GetNodeTokenRet(t)
  \/ \E t \in Threads : InvalidateNodeTokenRet(t)
  \/ \E t \in Threads : Unlock(t)
  \/ \E t \in Threads : Return(t)

HttpSpec == DaemonInit /\ [][HttpNext]_vars

\* -------------------------------------------------------------- MockSpec
\* The control methods of the Daemon on a node of the mock driver, whose
\* methods record the action in LastPowerActions under the node's addr
\* (the body "a" stands for {"addr": "a"}) and do not go through Serve.

\* the control requests: the Daemon method, and force or dev
ControlRequests ==
  {<<"PowerOffNode", "">>, <<"PowerCycleNode", "force">>,
   <<"PowerCycleNode", "soft">>, <<"SetNodeBootDev", "A">>,
   <<"SetNodeBootDev", "B">>, <<"SetNodeBootDev", "zzz">>}

\* a mock that takes every dev for "A"
MockDriverAnyDev(op, arg) ==
  IF op = "PowerOffNode" THEN "off"
  ELSE IF op = "PowerCycleNode"
  THEN IF arg = "force" THEN "force-reboot" ELSE "soft-reboot"
  ELSE "bootdev-a"

\* server.PowerOff, PowerCycle and SetBootdev of the mock: the action they
\* hand to setPowerAction, or driver.ErrInvalidBootdev
MockDriver(op, arg) ==
  IF op = "PowerOffNode" THEN "off"
  ELSE IF op = "PowerCycleNode"
  THEN IF arg = "force" THEN "force-reboot" ELSE "soft-reboot"
  ELSE IF arg = "A" THEN "bootdev-a"
  ELSE IF arg = "B" THEN "bootdev-b"
  ELSE "InvalidBootdev"

\* relayError: the status of a Daemon method's error
relayError(err) ==
  IF err = "ok" THEN 200
  ELSE IF err = "NoSuchNode" THEN 404
  ELSE IF err = "InvalidToken" THEN 401
  ELSE IF err = "InvalidBootdev" THEN 400
  ELSE 500

\* Daemon.PowerOffNode, PowerCycleNode and SetNodeBootDev on a mock node
MockControl(t, l, token, op, arg) ==
  /\ Lock(t)
  /\ targ' = [targ EXCEPT ![t] = token]
  /\ tcmd' = [tcmd EXCEPT ![t] = arg]
  /\ IF getNodeWithToken(l, token) # "ok"
     THEN /\ Returns(t, op, l, getNodeWithToken(l, token), 0)
          /\ UNCHANGED LastPowerActions
     ELSE IF MockDriver(op, arg) = "InvalidBootdev"
     THEN /\ Returns(t, op, l, "InvalidBootdev", 0)
          /\ UNCHANGED LastPowerActions
     ELSE /\ Returns(t, op, l, "ok", 0)
          /\ LastPowerActions' =
               [LastPowerActions EXCEPT ![ConnInfo[l]] = MockDriver(op, arg)]
  /\ UNCHANGED <<coordVars, procVars, tsrv, tconn, tinfo, ttok, nodes, Version,
                 CurrentToken, ConnInfo, rows, nextServer, nextToken, revoked,
                 highVersion, boots, drvVars, pureVars, lines, dconn,
                 dclosed>>

MockNext ==
  \/ \E s \in Servers : ServeCtxDone(s)
  \/ \E s \in Servers, t \in Threads : ServeDropConsole(s, t)
  \/ \E s \in Servers : ServeStop(s)
  \/ \E t \in Threads, l \in Labels, info \in Infos : SetNodeIfAbsent(t, l, info)
  \/ \E t \in Threads, l \in Labels : DeleteNode(t, l)
  \/ \E t \in Threads, l \in Labels : GetNodeToken(t, l, Version[l])
  \/ \E t \in Threads : GetNodeTokenRet(t)
  \/ \E t \in Threads, l \in Labels : InvalidateNodeToken(t, l)
  \/ \E t \in Threads : InvalidateNodeTokenRet(t)
  \/ \E t \in Threads, l \in Labels, k \in Tokens, r \in ControlRequests :
       MockControl(t, l, k, r[1], r[2])
  \/ \E t \in Threads : Unlock(t)

MockSpec == DaemonInit /\ [][MockNext]_vars

\* ------------------------------------------------------- MockConsoleSpec
\* The console of a mock node: the writer goroutine of mockInfo.Dial writes
\* info.NumWrites into a net.Pipe, one line per Read of the handler.
MaxLines == 2        \* lines read from one console stream

\* a writer that does not count its writes
MockReadNoCount(c) ==
  /\ cpc[c] = "stream"
  /\ procState[c] = "running"
  /\ Len(lines[c]) < MaxLines
  /\ lines' = [lines EXCEPT ![c] = Append(@, NumWrites[procOwner[c]])]
  /\ UNCHANGED <<coordVars, nextProc, procState, procOwner, shutdowns,
                 NumWrites, dropbuf, dropped, delivered, cpc, threadVars,
                 mutex, nodes, Version, CurrentToken, ConnInfo, rows,
                 nextServer, nextToken, revoked, highVersion, boots, drvVars, pureVars,
                 LastPowerActions, dconn, dclosed>>

\* conn.Read of the handler's copy loop returns the line of the pending
\* Fprintf(myConn, "%d\n", info.NumWrites); the writer goes on to
\* info.NumWrites++ and blocks in the next Fprintf
MockRead(c) ==
  /\ cpc[c] = "stream"
  /\ procState[c] = "running"
  /\ Len(lines[c]) < MaxLines
  /\ lines' = [lines EXCEPT ![c] = Append(@, NumWrites[procOwner[c]])]
  /\ NumWrites' = [NumWrites EXCEPT ![procOwner[c]] = @ + 1]
  /\ UNCHANGED <<coordVars, nextProc, procState, procOwner, shutdowns, dropbuf,
                 dropped, delivered, cpc, threadVars, mutex, nodes, Version,
                 CurrentToken, ConnInfo, rows, nextServer, nextToken, revoked,
                 highVersion, boots, drvVars, pureVars, LastPowerActions, dconn, dclosed>>

MockConsoleNext ==
  \/ \E s \in Servers : ServeCtxDone(s)
  \/ \E s \in Servers : ServeConnDrop(s)
  \/ \E s \in Servers, t \in Threads : ServeDropConsole(s, t)
  \/ \E s \in Servers : ServeStop(s)
  \/ \E s \in Servers, t \in Threads : ServeDialConsole(s, t)
  \/ \E s \in Servers : ServeDialOk(s)
  \/ \E t \in Threads, l \in Labels, info \in Infos : SetNodeIfAbsent(t, l, info)
  \/ \E t \in Threads, l \in Labels : DeleteNode(t, l)
  \/ \E t \in Threads, l \in Labels : GetNodeToken(t, l, Version[l])
  \/ \E t \in Threads : GetNodeTokenRet(t)
  \/ \E t \in Threads, l \in Labels : InvalidateNodeToken(t, l)
  \/ \E t \in Threads : InvalidateNodeTokenRet(t)
  \/ \E t \in Threads, l \in Labels, k \in Tokens : DialNodeConsole(t, l, k)
  \/ \E t \in Threads : Unlock(t)
  \/ \E c \in Procs : MockRead(c)
  \/ \E c \in Procs : ReadEOF(c)
  \/ \E c \in Procs : ClientGone(c)
  \/ \E c \in Procs : HandlerCloseSend(c)

MockConsoleSpec == DaemonInit /\ [][MockConsoleNext]_vars

\* ------------------------------- the Daemon that runs closures (runInDaemon)
\* An earlier Daemon hands every method to one goroutine through d.funcs
\* and waits for it: the methods exclude each other as under the mutex.
\* Its State keeps the map in front of the table and re-registers inside
\* State.SetNode; NewNode starts Serve at once.

\* State.getNode: the map first, then the row.  Scan(&version, &obmInfo)
\* takes the columns obm_info, version in the wrong order, so a row that
\* is not in the map yields an error that is not sql.ErrNoRows.
getNode(st, l) ==
  IF st.nodes[l] # NoServer THEN "ok"
  ELSE IF st.rows[l] = NoRow THEN "ErrNoRows"
  ELSE "scan"

\* State.SetNode; sqlOk is the outcome of its INSERT or UPDATE
StateSetNode(st, l, info, sqlOk) ==
  IF getNode(st, l) = "ErrNoRows"
  THEN IF GetOBM(info) # "ok" THEN [st EXCEPT !.err = GetOBM(info)]
       ELSE IF ~sqlOk
       THEN \* node.ObmCancel(): the Server just started is cancelled
            [StopOBM(StartOBM(st, st.nextServer), st.nextServer) EXCEPT
               !.nextServer = @ + 1, !.err = "sql"]
       ELSE StartOBM([st EXCEPT !.nodes[l] = st.nextServer,
                                !.Version[l] = 0,
                                !.CurrentToken[l] = noToken,
                                !.ConnInfo[l] = info,
                                !.rows[l] = [version |-> 0, info |-> info],
                                !.nextServer = @ + 1,
                                !.err = "ok"],
                     st.nextServer)
  ELSE IF getNode(st, l) = "ok"
  THEN IF ~sqlOk THEN [st EXCEPT !.err = "sql"]
       ELSE IF GetOBM(info) # "ok" THEN [st EXCEPT !.err = GetOBM(info)]
       ELSE StartOBM([StopOBM(st, st.nodes[l]) EXCEPT
                        !.nodes[l] = st.nextServer,
                        !.Version[l] = @ + 1,
                        !.CurrentToken[l] = noToken,
                        !.ConnInfo[l] = info,
                        !.rows[l] = [version |-> st.Version[l] + 1, info |-> info],
                        !.nextServer = @ + 1,
                        !.err = "ok"],
                     st.nextServer)
  ELSE [st EXCEPT !.err = "scan"]

\* State.DeleteNode of that State: the DELETE runs whether or not the
\* label is in the map
StateDeleteNodeRow(st, l, sqlOk) ==
  LET st1 == IF st.nodes[l] # NoServer
             THEN [StopOBM(st, st.nodes[l]) EXCEPT
                     !.nodes[l] = NoServer, !.Version[l] = 0,
                     !.CurrentToken[l] = noToken, !.ConnInfo[l] = "none"]
             ELSE st
  IN [st1 EXCEPT !.rows[l] = IF sqlOk THEN NoRow ELSE @,
                 !.err = IF sqlOk THEN "ok" ELSE "sql"]

\* Daemon.DeleteNode of the runInDaemon Daemon
DeleteNodeInDaemon(t, l) ==
  /\ Lock(t)
  /\ \E sqlOk \in BOOLEAN :
       LET st == StateDeleteNodeRow(Registry, l, sqlOk) IN
       /\ Commit(st)
       /\ Returns(t, "DeleteNodeInDaemon", l, st.err, 0)
       /\ revoked' = [revoked EXCEPT ![l] = IF st.err = "ok" THEN nextToken - 1 ELSE @]
  /\ UNCHANGED <<proc, conn, req, procVars, tsrv, tconn, tcmd, targ, tinfo, ttok, nextToken>>

\* Daemon.GetNodeVersion of the runInDaemon Daemon: any error of GetNode
\* is taken for absence
GetNodeVersionInDaemon(t, l) ==
  /\ Lock(t)
  /\ IF getNode(Registry, l) # "ok"
     THEN Returns(t, "GetNodeVersionInDaemon", l, "NoSuchNode", 0)
     ELSE Returns(t, "GetNodeVersionInDaemon", l, "ok", Version[l])
  /\ UNCHANGED <<coordVars, procVars, tsrv, tconn, tcmd, targ, tinfo, ttok, nodes, Version,
                 CurrentToken, ConnInfo, rows, nextServer, nextToken, revoked, highVersion, auxVars>>

\* Daemon.SetNode of the runInDaemon Daemon
SetNodeInDaemon(t, l, info) ==
  /\ Lock(t)
  /\ nextServer <= MaxServers
  /\ getNode(Registry, l) = "ok" => Version[l] < MaxVersion
  /\ \E sqlOk \in BOOLEAN :
       LET st == StateSetNode(Registry, l, info, sqlOk) IN
       /\ Commit(st)
       /\ Returns(t, "SetNodeInDaemon", l, st.err, 0)
       /\ revoked' = [revoked EXCEPT ![l] = IF st.err = "ok" THEN nextToken - 1 ELSE @]
  /\ UNCHANGED <<proc, conn, req, procVars, tsrv, tconn, tcmd, targ, tinfo, ttok, nextToken>>

\* Daemon.SetNodeVersion of the runInDaemon Daemon.  After a version that
\* is not the next one the closure sets newVersion and err and does not
\* return: State.SetNode runs all the same and its results replace them.
SetNodeVersionInDaemon(t, l, version) ==
  /\ Lock(t)
  /\ nextServer <= MaxServers
  /\ Version[l] < MaxVersion
  /\ targ' = [targ EXCEPT ![t] = version]
  /\ UNCHANGED tinfo
  /\ \E sqlOk \in BOOLEAN :
       IF getNode(Registry, l) # "ok"
       THEN /\ Returns(t, "SetNodeVersionInDaemon", l, "NoSuchNode", 0)
            /\ UNCHANGED <<srvpc, ctxDone, nodes, Version, CurrentToken, ConnInfo,
                           rows, nextServer, revoked, highVersion, auxVars>>
       ELSE LET st == StateSetNode(Registry, l, ConnInfo[l], sqlOk) IN
            /\ Commit(st)
            /\ Returns(t, "SetNodeVersionInDaemon", l, st.err, st.Version[l])
            /\ revoked' = [revoked EXCEPT ![l] =
                              IF st.err = "ok" THEN nextToken - 1 ELSE @]
  /\ UNCHANGED <<proc, conn, req, procVars, tsrv, tconn, tcmd, ttok, nextToken>>

RunInDaemonNext ==
  \/ \E s \in Servers : ServeCtxDone(s)
  \/ \E t \in Threads, l \in Labels : DeleteNodeInDaemon(t, l)
  \/ \E t \in Threads, l \in Labels : GetNodeVersionInDaemon(t, l)
  \/ \E t \in Threads, l \in Labels, info \in Infos : SetNodeInDaemon(t, l, info)
  \/ \E t \in Threads, l \in Labels, v \in Versions :
       SetNodeVersionInDaemon(t, l, v)
  \/ \E t \in Threads : Unlock(t)

RunInDaemonSpec == DaemonInit /\ [][RunInDaemonNext]_vars

\* NewState of that State in a new process on the same table: it creates
\* the table if need be and starts with an empty map; the rows are to be
\* loaded by getNode when a label is first asked for.
NewStateLazy ==
  /\ boots < MaxBoots
  /\ mutex = NoThread
  /\ \A t \in Threads : tpc[t] = "idle"
  /\ \A p \in Procs : procState[p] # "running" /\ cpc[p] \notin {"stream", "Close_send"}
  /\ boots' = boots + 1
  /\ nodes' = [l \in Labels |-> NoServer]
  /\ Version' = [l \in Labels |-> 0]
  /\ ConnInfo' = [l \in Labels |-> "none"]
  /\ CurrentToken' = [l \in Labels |-> noToken]
  /\ srvpc' = [s \in Servers |-> "off"]
  /\ proc' = [s \in Servers |-> NoProc]
  /\ conn' = [s \in Servers |-> NoProc]
  /\ req' = [s \in Servers |-> NoThread]
  /\ ctxDone' = [s \in Servers |-> FALSE]
  /\ NumWrites' = [s \in Servers |-> 0]
  /\ nextServer' = 1
  /\ revoked' = [l \in Labels |-> nextToken - 1]
  /\ UNCHANGED <<nextProc, procState, procOwner, shutdowns, dropbuf, dropped,
                 delivered, cpc, threadVars, mutex, rows, nextToken, highVersion,
                 LastPowerActions, lines, dconn, dclosed,
                 drvVars, pureVars>>

LazyRestartNext ==
  \/ \E s \in Servers : ServeCtxDone(s)
  \/ \E t \in Threads, l \in Labels : DeleteNodeInDaemon(t, l)
  \/ \E t \in Threads, l \in Labels : GetNodeVersionInDaemon(t, l)
  \/ \E t \in Threads, l \in Labels, info \in Infos : SetNodeInDaemon(t, l, info)
  \/ \E t \in Threads, l \in Labels, v \in Versions :
       SetNodeVersionInDaemon(t, l, v)
  \/ \E t \in Threads : Unlock(t)
  \/ NewStateLazy

LazyRestartSpec == DaemonInit /\ [][LazyRestartNext]_vars

\* ------------------------------------------------ claims on the Daemon
\* C3: a token method sends its request to the node's Server only when the
\* presented token is the node's current token at the check made under the
\* mutex; with any other token it returns InvalidToken without having sent
\* anything to a Server.  The sentinel is never a presented token, so a node
\* without a valid token admits nobody, and a token invalidated before the
\* call gets InvalidToken.
C3_TokenGate ==
  \A t \in Threads :
    (top[t] \in TokenOps /\ nodes[tlabel[t]] # NoServer) =>
      /\ tsrv[t] # NoServer =>
           /\ targ[t] = CurrentToken[tlabel[t]]
           /\ targ[t] # noToken
           /\ tsrv[t] = nodes[tlabel[t]]
      /\ targ[t] # CurrentToken[tlabel[t]] =>
           /\ tsrv[t] = NoServer
           /\ tpc[t] = "ret" /\ tres[t].err = "InvalidToken"
      /\ (tpc[t] = "ret" /\ tres[t].err = "InvalidToken") =>
           targ[t] # CurrentToken[tlabel[t]]

\* DialNodeConsole with a token that was invalidated before the call, on a
\* node that has no valid token, returns InvalidToken
C3_Witness ==
  \E t \in Threads :
    /\ top[t] = "DialNodeConsole" /\ tpc[t] = "ret"
    /\ tres[t].err = "InvalidToken"
    /\ nodes[tlabel[t]] # NoServer
    /\ CurrentToken[tlabel[t]] = noToken
    /\ targ[t] <= revoked[tlabel[t]]

\* a token method presents a token that was minted for its label before an
\* InvalidateNodeToken, SetNode or DeleteNode of that label completed
PresentsRevoked(t) ==
  top[t] \in TokenOps /\ targ[t] # noToken /\ targ[t] <= revoked[tlabel[t]]

\* C4 as the spec words it: once InvalidateNodeToken, SetNode or DeleteNode
\* of a label has completed, every token minted for it before fails with
\* InvalidToken.
C4_PriorTokenInvalidToken ==
  \A t \in Threads :
    (PresentsRevoked(t) /\ tpc[t] = "ret") => tres[t].err = "InvalidToken"

\* C4, amended: such a token is never the current token again and never
\* lets a request through to a Server; the method fails with InvalidToken
\* while the label is registered and with NoSuchNode while it is not.
C4_PriorTokenRejected ==
  /\ \A l \in Labels : CurrentToken[l] = noToken \/ CurrentToken[l] > revoked[l]
  /\ \A t \in Threads :
       PresentsRevoked(t) =>
         /\ tsrv[t] = NoServer
         /\ tpc[t] = "ret"
         /\ tres[t].err =
              (IF nodes[tlabel[t]] = NoServer THEN "NoSuchNode" ELSE "InvalidToken")

\* a control method presents an invalidated token while a newer token of
\* the node is valid
C4_Witness ==
  \E t \in Threads :
    /\ PresentsRevoked(t) /\ top[t] = "PowerOffNode" /\ tpc[t] = "ret"
    /\ CurrentToken[tlabel[t]] # noToken

\* C5 as the spec words it: when SetNodeVersion has succeeded the node's
\* current token is the sentinel.
C5_BumpClearsToken ==
  \A t \in Threads :
    (top[t] = "SetNodeVersion" /\ tpc[t] = "ret" /\ tres[t].err = "ok")
      => CurrentToken[tlabel[t]] = noToken

ConsoleNext ==
  \/ \E s \in Servers : ServeConnDrop(s)
  \/ \E s \in Servers, t \in Threads : ServeDropConsole(s, t)
  \/ \E s \in Servers : ServeStop(s)
  \/ \E s \in Servers, t \in Threads : ServeDialConsole(s, t)
  \/ \E s \in Servers : ServeDialOk(s)
  \/ \E s \in Servers : ServeDialFail(s)
  \/ \E t \in Threads, l \in Labels, info \in Infos : SetNodeIfAbsent(t, l, info)
  \/ \E t \in Threads, l \in Labels, v \in Versions : SetNodeVersion(t, l, v)
  \/ \E t \in Threads : SetNodeVersionRet(t)
  \/ \E t \in Threads, l \in Labels, v \in Versions : GetNodeToken(t, l, v)
  \/ \E t \in Threads : GetNodeTokenRet(t)
  \/ \E t \in Threads, l \in Labels : InvalidateNodeToken(t, l)
  \/ \E t \in Threads : InvalidateNodeTokenRet(t)
  \/ \E t \in Threads, l \in Labels, k \in Tokens : DialNodeConsole(t, l, k)
  \/ \E t \in Threads : Unlock(t)
  \/ \E c \in Procs : ReadEOF(c)
  \/ \E c \in Procs : ClientGone(c)
  \/ \E c \in Procs : HandlerCloseSend(c)

\* The goroutine of a Server keeps running, and a Read on a stream whose
\* subprocess is shut down returns.
ConsoleSpec ==
  /\ DaemonInit
  /\ [][ConsoleNext]_vars
  /\ \A s \in Servers : WF_vars(ServeStop(s))
  /\ \A c \in Procs : WF_vars(ReadEOF(c))

\* ConsoleSpec where, besides, Serve takes a waiting DropConsole and the
\* caller that DropConsole released runs on to its return.
ConsoleLiveSpec ==
  /\ ConsoleSpec
  /\ \A s \in Servers, t \in Threads : WF_vars(ServeDropConsole(s, t))
  /\ \A t \in Threads : WF_vars(InvalidateNodeTokenRet(t))

\* ------------------------------------------------------------ OperationsSpec
\* The Daemon of daemon.go with its Servers and the consumers of its
\* consoles.  GetNodeToken takes no version there: VersionMatches holds.
OperationsNext ==
  \/ \E s \in Servers : Serve(s)
  \/ \E t \in Threads, l \in Labels, info \in Infos : SetNodeIfAbsent(t, l, info)
  \/ \E t \in Threads, l \in Labels : DeleteNode(t, l)
  \/ \E t \in Threads, l \in Labels : GetNodeToken(t, l, Version[l])
  \/ \E t \in Threads : GetNodeTokenRet(t)
  \/ \E t \in Threads, l \in Labels : InvalidateNodeToken(t, l)
  \/ \E t \in Threads : InvalidateNodeTokenRet(t)
  \/ \E t \in Threads, l \in Labels, k \in Tokens : DialNodeConsole(t, l, k)
  \/ \E t \in Threads, l \in Labels, k \in Tokens : PowerOffNode(t, l, k)
  \/ \E t \in Threads, l \in Labels, k \in Tokens : PowerCycleNode(t, l, k)
  \/ \E t \in Threads, l \in Labels, k \in Tokens : SetNodeBootDev(t, l, k)
  \/ \E t \in Threads, l \in Labels, k \in Tokens : GetNodePowerStatus(t, l, k)
  \/ \E t \in Threads : Unlock(t)
  \/ \E c \in Procs : ReadEOF(c)
  \/ \E c \in Procs : ClientGone(c)
  \/ \E c \in Procs : HandlerCloseSend(c)

\* what a caller does by itself once the Server has answered it
Continue(t) ==
  \/ GetNodeTokenRet(t)
  \/ InvalidateNodeTokenRet(t)
  \/ Unlock(t)

\* The goroutine of every Server and every caller inside a method keep
\* running, and every driver call returns; a caller need not start a method
\* and a consumer need neither read nor close.
OperationsSpec ==
  /\ DaemonInit
  /\ [][OperationsNext]_vars
  /\ \A s \in Servers : WF_vars(Serve(s))
  /\ \A t \in Threads : WF_vars(Continue(t))

\* ------------------------------------------------------------ EarlyMintSpec
\* The earlier Daemon.GetNodeToken: node.NewToken() is called before the
\* version is compared.  Up to the DropConsole of NewToken's ClearToken.
GetNodeTokenEarly(t, l, version) ==
  /\ Lock(t)
  /\ targ' = [targ EXCEPT ![t] = version]
  /\ UNCHANGED tinfo
  /\ \E randOk \in BOOLEAN :
       IF GetNode(Registry, l) # "ok"
       THEN /\ Returns(t, "GetNodeToken", l, "NoSuchNode", 0)
            /\ UNCHANGED <<tsrv, ttok, nextToken>>
       ELSE IF ~randOk \/ nextToken > MaxTokens
       THEN /\ Returns(t, "GetNodeToken", l, "rand", Version[l])
            /\ UNCHANGED <<tsrv, ttok, nextToken>>
       ELSE /\ ttok' = [ttok EXCEPT ![t] = nextToken]
            /\ nextToken' = nextToken + 1
            /\ Calls(t, "GetNodeToken", l)
            /\ DropConsole(t, nodes[l])
            /\ UNCHANGED tres
  /\ UNCHANGED <<coordVars, procVars, tconn, tcmd, nodes, Version,
                 CurrentToken, ConnInfo, rows, nextServer, revoked, highVersion, auxVars>>

\* the rest of NewToken, then `if version != node.Version`
GetNodeTokenEarlyRet(t) ==
  /\ tpc[t] = "back"
  /\ top[t] = "GetNodeToken"
  /\ CurrentToken' = [ClearToken(tlabel[t]) EXCEPT ![tlabel[t]] = ttok[t]]
  /\ IF ~VersionMatches(tlabel[t], targ[t])
     THEN Returns(t, "GetNodeToken", tlabel[t], "VersionConflict", Version[tlabel[t]])
     ELSE Returns(t, "GetNodeToken", tlabel[t], "ok", ttok[t])
  /\ UNCHANGED <<coordVars, procVars, tsrv, tconn, tcmd, targ, tinfo, ttok, nodes, Version,
                 ConnInfo, rows, nextServer, nextToken, revoked, highVersion, auxVars>>

EarlyMintNext ==
  \/ \E s \in Servers : ServeConnDrop(s)
  \/ \E s \in Servers, t \in Threads : ServeDropConsole(s, t)
  \/ \E s \in Servers : ServeStop(s)
  \/ \E s \in Servers, t \in Threads : ServeDialConsole(s, t)
  \/ \E s \in Servers : ServeDialOk(s)
  \/ \E s \in Servers : ServeDialFail(s)
  \/ \E t \in Threads, l \in Labels, info \in Infos : SetNodeIfAbsent(t, l, info)
  \/ \E t \in Threads, l \in Labels, v \in Versions : GetNodeTokenEarly(t, l, v)
  \/ \E t \in Threads : GetNodeTokenEarlyRet(t)
  \/ \E t \in Threads, l \in Labels, k \in Tokens : DialNodeConsole(t, l, k)
  \/ \E t \in Threads : Unlock(t)
  \/ \E c \in Procs : ReadEOF(c)
  \/ \E c \in Procs : ClientGone(c)
  \/ \E c \in Procs : HandlerCloseSend(c)

EarlyMintSpec == DaemonInit /\ [][EarlyMintNext]_vars

\* ------------------------------------------------------------ FaultySpec
\* ConsoleSpec's steps with subprocesses whose Shutdown will return an error
\* (ipmitool's `sol deactivate` failing, a pty that is closed already).
InjectFault(p) ==
  /\ p \notin faulty
  /\ procState[p] # "shutdown"
  /\ faulty' = faulty \cup {p}
  /\ UNCHANGED <<coordVars, procVars, threadVars, mutex, nodes, Version,
                 CurrentToken, ConnInfo, rows, nextServer, nextToken, revoked,
                 highVersion, boots, pureVars, LastPowerActions, lines, dconn,
                 dclosed, dlog, status, issued>>

FaultyNext ==
  \/ ConsoleNext
  \/ \E p \in Procs : InjectFault(p)

FaultySpec == DaemonInit /\ [][FaultyNext]_vars

\* the methods that C7 is about; both end in node.OBM.DropConsole()
DropOps == {"InvalidateNodeToken", "SetNodeVersion"}

\* C7: when InvalidateNodeToken or a successful SetNodeVersion has called
\* DropConsole, the Server has accepted the request and shuts the console
\* subprocess down as the very next thing it does, before any other event;
\* a subprocess that is shut down stays so, and the handler streaming the
\* console then leaves its copy loop.
C7_TeardownOnInvalidation ==
  /\ [](\A t \in Threads :
         (top[t] \in DropOps /\ tsrv[t] # NoServer /\ tpc[t] \in {"back", "ret"})
           => (srvpc[tsrv[t]] = "stop" \/ RunningOf(tsrv[t]) = {}))
  /\ [][\A s \in Servers :
         srvpc[s] = "stop" =>
           \/ srvpc'[s] = "stop" /\ proc'[s] = proc[s]
           \/ srvpc'[s] = "select" /\ \A p \in Procs :
                procOwner[p] = s => procState'[p] # "running"]_vars
  /\ [][\A p \in Procs : procState[p] = "shutdown" => procState'[p] = "shutdown"]_vars
  /\ \A c \in Procs :
       (cpc[c] = "stream" /\ srvpc[procOwner[c]] = "stop") ~> cpc[c] # "stream"

\* InvalidateNodeToken has got its DropConsole through while a handler is
\* streaming the console of the node
C7_Witness ==
  \E t \in Threads, c \in Procs :
    /\ top[t] = "InvalidateNodeToken" /\ tpc[t] = "back"
    /\ srvpc[tsrv[t]] = "stop"
    /\ cpc[c] = "stream" /\ procState[c] = "running" /\ procOwner[c] = tsrv[t]

\* C9 as the spec words it, a failing SQL statement left aside:
\* SetNodeVersion(label, N) on a node at version V succeeds exactly when
\* N = V+1; then the version is V+1 in the node and in its row, and V+1 is
\* returned.  Otherwise it returns VersionConflict with V.
C9_BumpIffNext ==
  \A t \in Threads :
    (top[t] \in {"SetNodeVersion", "SetNodeVersionInDaemon"} /\ tpc[t] = "ret"
       /\ tres[t].err \notin {"NoSuchNode", "sql"}) =>
      IF tres[t].err = "ok"
      THEN /\ targ[t] = Version[tlabel[t]]
           /\ tres[t].val = Version[tlabel[t]]
           /\ rows[tlabel[t]].version = Version[tlabel[t]]
      ELSE /\ tres[t].err = "VersionConflict"
           /\ tres[t].val = Version[tlabel[t]]
           /\ targ[t] # Version[tlabel[t]] + 1

\* C10: GetNodeToken hands out a token only when the expected version is
\* the node's version; otherwise, as after a bump or a re-registration that
\* came between the admin's read of the version and this call, it returns
\* VersionConflict with the node's version and no token.
C10_MintChecksVersion ==
  \A t \in Threads :
    (top[t] = "GetNodeToken" /\ nodes[tlabel[t]] # NoServer) =>
      /\ ttok[t] # noToken => targ[t] = Version[tlabel[t]]
      /\ (tpc[t] = "ret" /\ tres[t].err = "ok") =>
           /\ targ[t] = Version[tlabel[t]]
           /\ tres[t].val = ttok[t] /\ ttok[t] = CurrentToken[tlabel[t]]
           /\ ttok[t] # noToken
      /\ targ[t] # Version[tlabel[t]] =>
           /\ tpc[t] = "ret"
           /\ tres[t] = [err |-> "VersionConflict", val |-> Version[tlabel[t]]]
           /\ ttok[t] = noToken /\ tsrv[t] = NoServer

\* the admin expected a version that a bump or a re-registration has left
\* behind, and gets VersionConflict
C10_Witness ==
  \E t \in Threads :
    /\ top[t] = "GetNodeToken" /\ tpc[t] = "ret"
    /\ tres[t].err = "VersionConflict"
    /\ targ[t] < Version[tlabel[t]]

\* ---------------------------------------------- claims on registration
\* thread t makes the whole of the Daemon method `op` on label l in this step
MethodStep(t, op, l) ==
  tpc[t] = "idle" /\ tpc'[t] = "ret" /\ top'[t] = op /\ tlabel'[t] = l

\* after the step the label has a new node: version v, the given info, no
\* valid token, a Server that no node had before and that is serving, and
\* every other Server that was ever started is cancelled
FreshNode(l, v, info) ==
  /\ nodes'[l] = nextServer /\ nextServer' = nextServer + 1
  /\ srvpc[nodes'[l]] = "off" /\ srvpc'[nodes'[l]] = "select"
  /\ ~ctxDone'[nodes'[l]]
  /\ \A s \in Servers \ {nodes'[l]} : srvpc'[s] = "off" \/ ctxDone'[s]
  /\ Version'[l] = v /\ ConnInfo'[l] = info /\ CurrentToken'[l] = noToken
  /\ rows'[l] = [version |-> v, info |-> info]

\* the step changes nothing of the registry
RegistryUnchanged ==
  UNCHANGED <<nodes, Version, CurrentToken, ConnInfo, rows, srvpc, ctxDone, nextServer>>

BumpStep(t, l, v) ==
  /\ tpc[t] = "idle" /\ tpc'[t] = "DropConsole_send"
  /\ top'[t] = "SetNodeVersion" /\ tlabel'[t] = l /\ targ'[t] = v

Stale(c) == delivered[c] /\ srvpc[procOwner[c]] # "exited" /\ conn[procOwner[c]] # c

\* C14: Close on a stale stream changes nothing but the stream's own flag
\* and channel, whether a thread or the handler calls it; the Server never
\* receives from the channel of a stale stream; and a running subprocess is
\* shut down only by its Server handling cancellation, DropConsole, a new
\* dial, or the signal of the subprocess's own stream.
C14_StaleCloseHarmless ==
  [][/\ \A c \in Procs :
          Stale(c) =>
            /\ dropbuf'[c] >= dropbuf[c]
            /\ (dropbuf'[c] # dropbuf[c] \/ dropped'[c] # dropped[c]) =>
                 /\ UNCHANGED <<coordVars, procState, shutdowns, procOwner>>
                 /\ \A p \in Procs \ {c} :
                      dropbuf'[p] = dropbuf[p] /\ dropped'[p] = dropped[p]
     /\ \A p \in Procs :
          (procState[p] = "running" /\ procState'[p] = "shutdown") =>
            /\ proc[procOwner[p]] = p
            /\ \/ ctxDone[procOwner[p]] /\ srvpc'[procOwner[p]] = "exited"
               \/ srvpc[procOwner[p]] = "stop"
               \/ srvpc'[procOwner[p]] = "dial"
               \/ conn[procOwner[p]] = p /\ dropbuf'[p] < dropbuf[p]
    ]_vars

\* the stream of an earlier dial was closed after a later dial succeeded:
\* its signal sits in its own channel and the newer subprocess is running
C14_Witness ==
  \E c, p \in Procs :
    /\ Stale(c) /\ dropped[c] /\ dropbuf[c] = 1
    /\ conn[procOwner[c]] = p /\ proc[procOwner[c]] = p
    /\ procState[p] = "running"

\* C15: once Close was called on the stream that is the current one of its
\* Server while the subprocess behind it runs, the subprocess is shut down
\* in the end, with no DropConsole from anybody: when the Server takes the
\* conn.drop case it stops the subprocess in that step.  A successful dial
\* hands out one stream: a stream not handed out before, which is the new
\* `conn` of Serve and belongs to the subprocess just started.
C15_CloseTearsDown ==
  /\ \A c \in Procs :
       (dropped[c] /\ conn[procOwner[c]] = c /\ proc[procOwner[c]] = c
          /\ procState[c] = "running") ~> procState[c] = "shutdown"
  /\ [](\A t \in Threads : tpc[t] # "DropConsole_send")
  /\ [][\A s \in Servers :
          /\ (conn[s] # NoProc /\ dropbuf'[conn[s]] < dropbuf[conn[s]]) =>
               /\ proc'[s] = NoProc
               /\ proc[s] # NoProc => procState'[proc[s]] = "shutdown"
          /\ \A t \in Threads :
               (tpc[t] = "DialConsole_recv" /\ tsrv[t] = s /\ tpc'[t] = "done"
                  /\ tres'[t].err = "ok") =>
                 /\ tres'[t].val = conn'[s] /\ tres'[t].val = proc'[s]
                 /\ ~delivered[conn'[s]] /\ delivered'[conn'[s]]
                 /\ procState[conn'[s]] = "none" /\ procState'[conn'[s]] = "running"
                 /\ \A p \in Procs \ {conn'[s]} : delivered'[p] = delivered[p]
       ]_vars

\* the current stream was closed while its subprocess runs, and a caller
\* is waiting to run a closure in the same Server
C15_Witness ==
  \E c \in Procs, t \in Threads :
    /\ dropped[c] /\ dropbuf[c] = 1
    /\ conn[procOwner[c]] = c /\ proc[procOwner[c]] = c
    /\ procState[c] = "running" /\ srvpc[procOwner[c]] = "select"
    /\ tpc[t] = "RunInServer_send" /\ tsrv[t] = procOwner[c]

\* C16 as the spec words it: a Close that has passed the test of the flag
\* is the only one to send for its stream, and it finds room in the
\* channel, so that it returns at once in every state of the Server and at
\* most one signal is sent per stream.
C16_CloseOnce ==
  \A t \in Threads :
    tpc[t] = "Close_send" => (~dropped[tconn[t]] /\ dropbuf[tconn[t]] = 0)

\* C17: Shutdown is called once on every subprocess that is torn down and
\* never on another, and a Server that has exited leaves none running.
\* DropConsole on a Server without subprocess succeeds and changes nothing:
\* the Server is back at its select; a Close on a stream whose flag is set
\* returns and changes nothing.
C17_IdempotentTeardown ==
  /\ [](\A p \in Procs :
         /\ shutdowns[p] = (IF procState[p] = "shutdown" THEN 1 ELSE 0)
         /\ (procOwner[p] # NoServer /\ srvpc[procOwner[p]] = "exited")
              => procState[p] = "shutdown")
  /\ [][/\ \A s \in Servers, t \in Threads :
             (Selecting(s) /\ tpc[t] = "DropConsole_send" /\ tpc'[t] # tpc[t]) =>
               /\ tres'[t] = [err |-> "ok", val |-> 0]
               /\ srvpc'[s] = "stop"
               /\ UNCHANGED <<proc, conn, procVars>>
        /\ \A s \in Servers :
             (srvpc[s] = "stop" /\ srvpc'[s] # "stop" /\ proc[s] = NoProc) =>
               /\ Selecting(s)'
               /\ UNCHANGED <<proc, conn, req, ctxDone, procVars>>
        /\ \A t \in Threads :
             (tpc[t] = "Close_read" /\ dropped[tconn[t]] /\ tpc'[t] # tpc[t]) =>
               /\ tpc'[t] = "idle"
               /\ UNCHANGED <<coordVars, procVars>>
       ]_vars

\* a Server without subprocess has accepted a DropConsole while a thread
\* calls Close on a stream that was closed before
C17_Witness ==
  \E s \in Servers, t \in Threads :
    /\ srvpc[s] = "stop" /\ proc[s] = NoProc
    /\ tpc[t] = "Close_read" /\ dropped[tconn[t]]
    /\ procOwner[tconn[t]] = s /\ shutdowns[tconn[t]] = 1

\* C18: the Server leaves its loop only from its select, when its context
\* is cancelled, and in that step it shuts down the subprocess it has.  A
\* Server that has exited has no subprocess running and stays as it is: it
\* receives no request and no signal of a stream, starts and stops nothing.
C18_CancelStopsAndExits ==
  /\ [](\A s \in Servers :
         srvpc[s] = "exited" =>
           /\ ctxDone[s] /\ proc[s] = NoProc /\ req[s] = NoThread
           /\ RunningOf(s) = {})
  /\ [][\A s \in Servers :
          /\ (srvpc[s] # "exited" /\ srvpc'[s] = "exited") =>
               /\ Selecting(s) /\ ctxDone[s]
               /\ proc[s] # NoProc =>
                    /\ procState[proc[s]] = "running"
                    /\ procState'[proc[s]] = "shutdown"
                    /\ shutdowns'[proc[s]] = shutdowns[proc[s]] + 1
          /\ srvpc[s] = "exited" =>
               /\ srvpc'[s] = "exited"
               /\ proc'[s] = proc[s] /\ conn'[s] = conn[s] /\ req'[s] = req[s]
               /\ \A t \in Threads :
                    (tsrv[t] = s /\ tpc[t] \in Waiting) => tpc'[t] = tpc[t]
               /\ \A p \in Procs :
                    procOwner[p] = s =>
                      /\ procState'[p] = procState[p]
                      /\ shutdowns'[p] = shutdowns[p]
                      /\ dropbuf'[p] >= dropbuf[p]
               /\ \A p \in Procs : procOwner'[p] = s => procOwner[p] = s
       ]_vars

\* the Server has exited; the subprocess it had, whose stream nobody
\* closed, is shut down, and a caller's request waits unserved
C18_Witness ==
  \E s \in Servers, p \in Procs, t \in Threads :
    /\ srvpc[s] = "exited"
    /\ procOwner[p] = s /\ procState[p] = "shutdown" /\ ~dropped[p]
    /\ tsrv[t] = s /\ tpc[t] \in Waiting

\* C19 as the spec words it: no caller waits on a Server that has left its
\* loop: a request made while or after the context is cancelled is served,
\* or refused with an error, and whoever waits for a reply gets one.
C19_NoCallerLeftWaiting ==
  \A t \in Threads :
    tpc[t] \in Waiting \cup {"DialConsole_recv", "RunInServer_recv"}
      => srvpc[tsrv[t]] # "exited"

\* C20 as the spec words it: when DeleteNode, or a SetNode that replaces a
\* node, has its return value, every Server it cancelled has left its loop
\* and has no subprocess running.
C20_DeleteWaitsForDrain ==
  \A t \in Threads :
    (top[t] \in {"DeleteNode", "SetNode"} /\ tpc[t] = "ret") =>
      \A s \in Servers :
        ctxDone[s] => (srvpc[s] = "exited" /\ RunningOf(s) = {})

\* ------------------------------------------- claims on State and its table
\* C21: every label in the map has a row, and the node's version and info
\* are those of the row, also when the call that came last failed on its
\* SQL statement.
C21_MapHasRow ==
  \A l \in Labels :
    nodes[l] # NoServer =>
      /\ rows[l] # NoRow
      /\ rows[l].version = Version[l]
      /\ rows[l].info = ConnInfo[l]

\* a SetNodeVersion has failed on its UPDATE on a node that was bumped
\* before
C21_Witness ==
  \E t \in Threads :
    /\ top[t] = "SetNodeVersion" /\ tpc[t] = "ret" /\ tres[t].err = "sql"
    /\ nodes[tlabel[t]] # NoServer /\ Version[tlabel[t]] > 0

\* C22: a node in the map has a Coordinator that was started and is not
\* cancelled, so that an event sent to it is accepted in the end; a
\* Coordinator that left the map is cancelled; within one process no
\* Coordinator is started twice (a started one is never put in the map anew)
\* or cancelled twice (a cancelled one never comes back to the map).
Running(s) == srvpc[s] \in {"select", "stop", "fn"} /\ ~ctxDone[s]

InMap(s) == \E l \in Labels : nodes[l] = s

C22_CoordinatorLifecycle ==
  /\ [](\A s \in Servers :
          /\ InMap(s) => Running(s)
          /\ (srvpc[s] # "off" /\ ~InMap(s)) => ctxDone[s])
  /\ [][boots' = boots =>
          \A s \in Servers :
            /\ (~InMap(s) /\ InMap(s)') => (srvpc[s] = "off" /\ ~ctxDone[s])
            /\ (srvpc[s] = "off" /\ srvpc'[s] # "off") => InMap(s)'
            /\ ctxDone[s] => (ctxDone'[s] /\ ~InMap(s)')
            /\ (~ctxDone[s] /\ ctxDone'[s]) => (InMap(s) /\ ~InMap(s)')]_vars
  /\ \A t \in Threads :
       (tpc[t] \in {"DropConsole_send", "RunInServer_send"})
         ~> (tpc[t] \in {"back", "ret"})

\* in a process started on a table with a row, the node was registered
\* again and a caller waits to hand its event to the new Coordinator
C22_Witness ==
  \E t \in Threads, s \in Servers :
    /\ boots = 1 /\ ctxDone[s] /\ ~InMap(s)
    /\ tpc[t] = "DropConsole_send" /\ InMap(tsrv[t]) /\ tsrv[t] # s

\* C23: a call of SetNode, SetNodeVersion or DeleteNode that returns an
\* error leaves the map, the table, the versions, the tokens and the
\* running Coordinators as they were.
AdminWrites == {"SetNode", "SetNodeIfAbsent", "SetNodeVersion", "DeleteNode"}

C23_FailureChangesNothing ==
  [][\A t \in Threads, l \in Labels :
       (/\ \E op \in AdminWrites : MethodStep(t, op, l)
        /\ tres'[t].err # "ok")
         => RegistryUnchanged]_vars

\* C24 on the State that loads every row at once: a State created on a
\* table that committed operations have filled has the stored labels with
\* their stored info and version, each behind a
\* running Coordinator and without a valid token; tokens minted before are
\* rejected.
C24_RestartKeepsRegistry ==
  [][boots' = boots + 1 =>
       \A l \in Labels :
         /\ rows'[l] = rows[l]
         /\ (nodes'[l] # NoServer) <=> (rows[l] # NoRow)
         /\ nodes[l] # NoServer =>
              /\ nodes'[l] # NoServer
              /\ Version'[l] = Version[l] /\ ConnInfo'[l] = ConnInfo[l]
         /\ nodes'[l] # NoServer =>
              /\ Version'[l] = rows[l].version /\ ConnInfo'[l] = rows[l].info
              /\ srvpc'[nodes'[l]] = "select" /\ ~ctxDone'[nodes'[l]]
              /\ \A k \in Tokens : ~ValidToken(l, k)']_vars

\* C24 on the lazily loading State, where the same has to show in what the
\* Daemon answers: in a process started on the table, the version of a label that
\* has a row is found and is the stored one
C24_StoredNodeFound ==
  [][\A t \in Threads, l \in Labels :
       (/\ MethodStep(t, "GetNodeVersionInDaemon", l)
        /\ boots >= 1 /\ rows[l] # NoRow)
         => (tres'[t].err = "ok" /\ tres'[t].val = rows[l].version)]_vars

\* C25: registering a label with a body whose type is not in the Registry
\* fails with ErrUnknownType and creates nothing: no Server is started, and
\* the label is in the map and the table no more than before, so that a
\* lookup does not find a label that was free.  (On a registered label the
\* DELETE of the re-registration runs first and its error, if any, is the
\* one returned.)
C25_UnknownTypeCreatesNothing ==
  [][\A t \in Threads, l \in Labels :
       (MethodStep(t, "SetNode", l) /\ tinfo'[t] = "x") =>
         /\ tres'[t].err \in {"UnknownType", "sql"}
         /\ nodes[l] = NoServer =>
              (tres'[t].err = "UnknownType" /\ RegistryUnchanged)
         /\ nodes'[l] = NoServer
         /\ rows'[l] \in {NoRow, rows[l]}
         /\ nextServer' = nextServer
         /\ \A s \in Servers : srvpc[s] = "off" => srvpc'[s] = "off"]_vars

\* the registration of a free label with such a body has been refused
C25_Witness ==
  \E t \in Threads :
    /\ top[t] = "SetNode" /\ tpc[t] = "ret" /\ tinfo[t] = "x"
    /\ tres[t].err = "UnknownType"
    /\ rows[tlabel[t]] = NoRow /\ nextServer = 1

ControlOps == {"PowerOffNode", "PowerCycleNode", "SetNodeBootDev"}

C27_ControlFrame ==
  [][\A t \in Threads, l \in Labels, op \in ControlOps :
       MethodStep(t, op, l) =>
         /\ RegistryUnchanged
         /\ (nodes[l] # NoServer /\ targ'[t] # CurrentToken[l]) =>
              /\ tres'[t].err = "InvalidToken" /\ relayError(tres'[t].err) = 401
              /\ UNCHANGED LastPowerActions
         /\ (/\ nodes[l] # NoServer /\ targ'[t] = CurrentToken[l]
             /\ op = "SetNodeBootDev" /\ tcmd'[t] \notin {"A", "B"}) =>
              /\ tres'[t].err = "InvalidBootdev" /\ relayError(tres'[t].err) = 400
              /\ UNCHANGED LastPowerActions
         /\ tres'[t].err # "ok" => UNCHANGED LastPowerActions
         /\ tres'[t].err = "ok" =>
              /\ targ'[t] = CurrentToken[l]
              /\ \A a \in MockAddrs \ {ConnInfo[l]} :
                   LastPowerActions'[a] = LastPowerActions[a]
              /\ op = "PowerOffNode" => LastPowerActions'[ConnInfo[l]] = "off"
              /\ (op = "PowerCycleNode" /\ tcmd'[t] = "force") =>
                   LastPowerActions'[ConnInfo[l]] = "force-reboot"
              /\ (op = "PowerCycleNode" /\ tcmd'[t] = "soft") =>
                   LastPowerActions'[ConnInfo[l]] = "soft-reboot"
              /\ (op = "SetNodeBootDev" /\ tcmd'[t] = "A") =>
                   LastPowerActions'[ConnInfo[l]] = "bootdev-a"
              /\ (op = "SetNodeBootDev" /\ tcmd'[t] = "B") =>
                   LastPowerActions'[ConnInfo[l]] = "bootdev-b"]_vars

\* after a forced power cycle was recorded, a boot device that the mock
\* does not know has been refused
C27_Witness ==
  \E t \in Threads :
    /\ top[t] = "SetNodeBootDev" /\ tpc[t] = "ret" /\ tcmd[t] = "zzz"
    /\ tres[t].err = "InvalidBootdev"
    /\ LastPowerActions[ConnInfo[tlabel[t]]] = "force-reboot"

\* C28: InvalidateNodeToken on a registered node returns nil, with or
\* without a token or a console, and it does return; it leaves the token at
\* noToken and no console that Serve is not about to shut down, and touches
\* neither the version nor the registration. When the token is noToken already it changes nothing (so a
\* second call changes nothing after the first). On a label that is not
\* registered it returns ErrNoSuchNode.
HasConsole(l) ==
  \E c \in Procs : procOwner[c] = nodes[l] /\ procState[c] = "running"

C28_InvalidateIdempotent ==
  /\ [][\A t \in Threads :
          (tpc[t] # "ret" /\ tpc'[t] = "ret" /\ top'[t] = "InvalidateNodeToken") =>
            LET l == tlabel'[t] IN
            /\ nodes' = nodes /\ Version' = Version /\ rows' = rows
            /\ ConnInfo' = ConnInfo
            /\ \A m \in Labels \ {l} : CurrentToken'[m] = CurrentToken[m]
            /\ nodes[l] = NoServer =>
                 /\ tres'[t].err = "NoSuchNode" /\ relayError(tres'[t].err) = 404
                 /\ CurrentToken' = CurrentToken
            /\ nodes[l] # NoServer =>
                 /\ tres'[t].err = "ok" /\ relayError(tres'[t].err) = 200
                 /\ CurrentToken'[l] = noToken
                 /\ \A c \in Procs :
                      (procOwner'[c] = nodes[l] /\ procState'[c] = "running") =>
                        srvpc'[nodes[l]] = "stop"
            /\ (nodes[l] # NoServer /\ CurrentToken[l] = noToken) =>
                 CurrentToken' = CurrentToken]_vars
  /\ [](\A l \in Labels :
          (nodes[l] # NoServer /\ CurrentToken[l] = noToken /\ HasConsole(l)) =>
            srvpc[nodes[l]] = "stop")
  /\ \A t \in Threads :
       (top[t] = "InvalidateNodeToken" /\ tpc[t] = "DropConsole_send")
         ~> (tpc[t] = "ret" /\ tres[t].err = "ok")

\* an invalidation returns nil on a node whose token was invalidated before
C28_Witness ==
  \E t \in Threads :
    /\ top[t] = "InvalidateNodeToken" /\ tpc[t] = "ret" /\ tres[t].err = "ok"
    /\ nodes[tlabel[t]] # NoServer
    /\ CurrentToken[tlabel[t]] = noToken
    /\ revoked[tlabel[t]] >= 1
    /\ \E c \in Procs : procOwner[c] = nodes[tlabel[t]] /\ procState[c] = "shutdown"

\* C29: DropConsole of a driver returns nil when no console is active, also
\* right after a DropConsole that closed one.  Here for the dummy driver,
\* whose console is active while its connection is open.
C29_DropWithoutConsoleIsNil ==
  [][\A t \in Threads :
       (/\ tpc[t] = "idle" /\ tpc'[t] = "done" /\ tcmd'[t] = "DropConsole"
        /\ (dconn = NoProc \/ dconn \in dclosed)) =>
         tres'[t].err = "ok"]_vars

\* C30 as the mock driver has it: the line numbers are strictly increasing
\* across the console sessions of one mock OBM (one registration of the
\* node).  The sessions of an OBM never overlap; when a session reads its
\* first line, the line is above every line of the earlier sessions of the
\* OBM that are torn down; the lines of a session are consecutive; and the
\* first session of an OBM starts at 0.
Consecutive(q) == \A i \in 1..(Len(q) - 1) : q[i + 1] = q[i] + 1

FirstRead(c) == lines[c] = <<>> /\ lines'[c] # <<>>

C30_LinesIncreasePerOBM ==
  /\ [](\A c \in Procs : Consecutive(lines[c]))
  /\ [](\A c \in Procs :
          (lines[c] # <<>> /\ \A b \in 1..(c - 1) : procOwner[b] # procOwner[c]) =>
            lines[c][1] = 0)
  /\ [](\A b, c \in Procs :
          (b < c /\ procOwner[b] = procOwner[c] /\ procState[c] # "none") =>
            procState[b] = "shutdown")
  /\ [][\A b, c \in Procs :
          (/\ b < c /\ procOwner[b] = procOwner[c]
           /\ procState[b] = "shutdown" /\ FirstRead(c)) =>
            \A i \in 1..Len(lines[b]) : lines[b][i] < lines'[c][1]]_vars

\* two sessions of one OBM have each read two lines
C30_Witness ==
  /\ procOwner[1] # NoServer /\ procOwner[1] = procOwner[2]
  /\ Len(lines[1]) = 2 /\ Len(lines[2]) = 2

\* C30 as stated, for the sessions of the node of a label (Labels has one
\* label, so every session is one of its node): when a session reads its
\* first line, the line is above every line of the earlier sessions that are
\* torn down; the lines of a session are consecutive; the very first session
\* starts at 0.
C30_LinesIncreasePerNode ==
  /\ [](\A c \in Procs : Consecutive(lines[c]))
  /\ [](lines[1] # <<>> => lines[1][1] = 0)
  /\ [][\A b, c \in Procs :
          (b < c /\ procState[b] = "shutdown" /\ FirstRead(c)) =>
            \A i \in 1..Len(lines[b]) : lines[b][i] < lines'[c][1]]_vars

\* --------------------------------------------------- claims on the drivers
\* C31: the ipmi PowerCycle runs `chassis power reset` when forced and
\* `chassis power cycle` otherwise; when that run succeeds nothing else runs
\* and the call returns nil; when it fails exactly one `chassis power on`
\* runs and its outcome is the result.  While the closure runs, Serve
\* neither dials nor shuts down a console.
CycleCmd(t) ==
  IF tinfo[t] = "force" THEN "chassis power reset" ELSE "chassis power cycle"

C31_PowerCycleRetriesOnce ==
  /\ [](\A t \in Threads :
          (tpc[t] = "done" /\ tcmd[t] \in {"reset", "cycle"}) =>
            \/ /\ issued[t] = <<[cmd |-> CycleCmd(t), ok |-> TRUE]>>
               /\ tres[t].err = "ok"
            \/ /\ issued[t] = <<[cmd |-> CycleCmd(t), ok |-> FALSE],
                               [cmd |-> "chassis power on", ok |-> TRUE]>>
               /\ tres[t].err = "ok"
            \/ /\ issued[t] = <<[cmd |-> CycleCmd(t), ok |-> FALSE],
                               [cmd |-> "chassis power on", ok |-> FALSE]>>
               /\ tres[t].err = "exit")
  /\ [][\A s \in Servers :
          srvpc[s] \in {"fn", "fn_on"} =>
            UNCHANGED <<proc, conn, nextProc, procState, shutdowns>>]_vars

\* a soft power cycle failed and the power on after it succeeded, with a
\* console running
C31_Witness ==
  \E t \in Threads :
    /\ tpc[t] = "done" /\ tinfo[t] = "soft" /\ tres[t].err = "ok"
    /\ Len(issued[t]) = 2
    /\ proc[TheServer] # NoProc /\ procState[proc[TheServer]] = "running"

\* C32: for every Token t, UnmarshalText(MarshalText(t)) gives t back, and
\* MarshalText(t) is two lower-case hex digits for each byte (32 for the 16
\* bytes of token.go); UnmarshalText of a text of another length, or with a
\* character that is no hex digit, returns ErrInvalidToken.
LowerHex == (48..57) \cup (97..102)
AnyHex == LowerHex \cup (65..70)

C32_TokenRoundTrip ==
  /\ callIn.op = "MarshalText" =>
       /\ Len(callOut.val) = 2 * TokenLen
       /\ \A i \in 1..Len(callOut.val) : callOut.val[i] \in LowerHex
  /\ callIn.op = "RoundTrip" =>
       /\ callOut.err = "ok"
       /\ callOut.val = callIn.x
  /\ (/\ callIn.op = "UnmarshalText"
      /\ \/ Len(callIn.x) # 2 * TokenLen
         \/ \E i \in 1..Len(callIn.x) : callIn.x[i] \notin AnyHex) =>
       callOut.err = "InvalidToken"

\* a text of the right length whose last character is the g after f
C32_Witness ==
  /\ callIn.op = "UnmarshalText" /\ Len(callIn.x) = 2 * TokenLen
  /\ callIn.x[2 * TokenLen] = 103
  /\ \A i \in 1..(2 * TokenLen - 1) : callIn.x[i] \in AnyHex
  /\ callOut.err = "InvalidToken"

\* C33: GetPowerStatus of the dummy driver reflects the last power action:
\* "off" on a fresh OBM and after PowerOff, "on" after PowerCycle.
C33_DummyStatusFollowsPower ==
  [][\A t \in Threads :
       (tpc[t] = "idle" /\ tpc'[t] = "done" /\ tcmd'[t] = "GetPowerStatus") =>
         status'[t] = IF dlog = "PowerCycle" THEN "on" ELSE "off"]_vars

C35_RunKeepsConsole ==
  [][\A s \in Servers :
       (srvpc[s] = "fn" \/ srvpc'[s] = "fn") =>
         UNCHANGED <<proc, conn, nextProc, procState, procOwner, shutdowns>>]_vars

\* a closure has run and returned while a console was running
C35_Witness ==
  \E t \in Threads :
    /\ tpc[t] = "done" /\ tcmd[t] = "fn" /\ tres[t].err = "ok"
    /\ proc[TheServer] # NoProc /\ procState[proc[TheServer]] = "running"
    /\ shutdowns[proc[TheServer]] = 0

\* C36: when the driver's Dial fails, the caller of DialConsole gets the
\* error and no stream, as the one reply to its request; Serve is left
\* without a subprocess, and the console that ran before the request is
\* shut down.
C36_DialFailure ==
  /\ [](\A s \in Servers :
          srvpc[s] = "dial" =>
            /\ req[s] # NoThread /\ tpc[req[s]] = "DialConsole_recv"
            /\ \A c \in Procs : procOwner[c] = s => procState[c] # "running")
  /\ [][\A s \in Servers :
          (srvpc[s] = "dial" /\ srvpc'[s] # "dial" /\ nextProc' = nextProc) =>
            /\ tpc'[req[s]] \in {"done", "ret"}
            /\ tres'[req[s]] = [err |-> "dial", val |-> 0]
            /\ delivered' = delivered
            /\ req'[s] = NoThread
            /\ proc'[s] = NoProc
            /\ \A c \in Procs : procOwner'[c] = s => procState'[c] # "running"]_vars
  /\ [][\A t \in Threads :
          (tpc[t] # "DialConsole_recv" /\ tres[t].err = "dial") =>
            (tpc'[t] = tpc[t] => tres'[t] = tres[t])]_vars

\* a Dial failed on a Server whose console had been running
C36_Witness ==
  \E t \in Threads :
    /\ tpc[t] = "done" /\ tres[t].err = "dial"
    /\ proc[TheServer] = NoProc
    /\ \E c \in Procs : procOwner[c] = TheServer /\ procState[c] = "shutdown"

\* C37: an error of the driver's Shutdown is not propagated.  The step that
\* shuts such a subprocess down gives no caller a result and leaves Serve
\* without a proc; no Shutdown is made twice on a subprocess; and
\* InvalidateNodeToken, the DropConsole in it and a DialNodeConsole after it
\* return what they return without the error.
C37_ShutdownErrorNotPropagated ==
  /\ [](\A p \in Procs : shutdowns[p] <= 1)
  /\ [][\A p \in Procs :
          (ShutdownErr(p) # "ok" /\ shutdowns'[p] # shutdowns[p]) =>
            /\ proc[procOwner[p]] = p /\ proc'[procOwner[p]] = NoProc
            /\ procState'[p] = "shutdown"
            /\ tres' = tres
            /\ \A t \in Threads : tpc'[t] \notin {"ret", "done"} \/ tpc'[t] = tpc[t]]_vars
  /\ [](\A t \in Threads :
          tpc[t] = "ret" =>
            /\ (top[t] = "InvalidateNodeToken" /\ nodes[tlabel[t]] # NoServer) =>
                 tres[t].err = "ok"
            /\ (top[t] = "DialNodeConsole" /\ getNodeWithToken(tlabel[t], targ[t]) = "ok") =>
                 tres[t].err \in {"ok", "dial"})
  /\ [][\A s \in Servers, t \in Threads :
          (tpc[t] = "DropConsole_send" /\ tpc'[t] # "DropConsole_send") =>
            tres'[t].err = "ok"]_vars

\* after the Shutdown of the first console failed, the token was invalidated
\* and a second console dialed
C37_Witness ==
  \E t \in Threads :
    /\ tpc[t] = "ret" /\ top[t] = "DialNodeConsole" /\ tres[t].err = "ok"
    /\ tres[t].val = 2
    /\ 1 \in faulty /\ procState[1] = "shutdown" /\ shutdowns[1] = 1
    /\ revoked[tlabel[t]] >= 1

\* C38: a GetNodeToken that fails with VersionConflict or with the error of
\* the random generator returns without having sent a DropConsole, and leaves
\* every node's token and version as they were.
C38_FailedMintChangesNothing ==
  [][\A t \in Threads :
       (/\ tpc[t] # "ret" /\ tpc'[t] = "ret"
        /\ top'[t] = "GetNodeToken"
        /\ tres'[t].err \in {"VersionConflict", "rand"}) =>
         /\ tpc[t] # "back"
         /\ CurrentToken' = CurrentToken
         /\ Version' = Version]_vars

\* C39: of the console subprocesses started for a label, by the Server of
\* its registration and by the Servers of its earlier registrations, at
\* most one is running; a Server dials only when none of them is.
C39_OneConsolePerLabel ==
  \A a, b \in Procs :
    (procState[a] = "running" /\ procState[b] = "running") => a = b

\* C40: every Daemon method that has taken the mutex returns and releases
\* it, whatever the consumers of the consoles do; a caller waits only on a
\* Server whose goroutine is in its loop.
C40_EveryOperationReturns ==
  /\ \A t \in Threads : (tpc[t] # "idle") ~> (tpc[t] = "idle" /\ mutex # t)
  /\ [](\A t \in Threads :
          tpc[t] \notin {"idle", "ret", "back"} =>
            /\ mutex = t
            /\ tsrv[t] \in Servers
            /\ srvpc[tsrv[t]] # "exited" /\ ~ctxDone[tsrv[t]])

\* a control operation has returned while a consumer holds a stream that it
\* neither reads to its end nor closes
C40_Witness ==
  \E t \in Threads, c \in Procs :
    /\ tpc[t] = "ret" /\ top[t] = "PowerOffNode" /\ tres[t].err = "ok"
    /\ cpc[c] = "stream" /\ procState[c] = "running"

====
